---- MODULE Spec2Model ----
(***************************************************************************)
(* A model of the SNES emulator core of karstenes/snes: the memory gateway *)
(* (memory.rs), the instruction decoder and the 65C816 executor (cpu.rs),  *)
(* as they are driven by the debugger's main loop (main.rs).               *)
(*                                                                         *)
(* A Console is the record snes = [cpu, ram, mmio, dma, cartridge].  The   *)
(* functions of the source that take &Console or &mut Console are          *)
(* operators on that record.  A Result<T> is a record with a field st:     *)
(* "ok" (with val, or with the new console snes), "err" (the eyre error    *)
(* returned to the caller, err names the message) or "panic" (todo!(),     *)
(* unimplemented!(), an index out of bounds, or an arithmetic overflow in  *)
(* a build with overflow checks).  After a failure the field snes holds    *)
(* the console as the failing call left it.                                *)
(***************************************************************************)
EXTENDS Integers, Sequences, FiniteSets, TLC

VARIABLES
    snes,             \* the Console: cpu, ram, mmio, dma, cartridge
    overflow_checks,  \* the build: TRUE when integer overflow panics (debug)
    halted,           \* "no", or how the process ended: "err" or "panic"
    last,             \* the last operation performed, its inputs and result
    prev,             \* the operation before it
    steps             \* number of operations performed so far

vars == <<snes, overflow_checks, halted, last, prev, steps>>

(***************************************************************************)
(* Fixed-width arithmetic.                                                 *)
(***************************************************************************)
U8 == \h100
U16 == \h10000
U24 == \h1000000

Lo(w) == w % \h100
Hi(w) == (w \div \h100) % \h100
Word(h, l) == h * \h100 + l
Bit(v, n) == (v \div (2 ^ n)) % 2 = 1
BoolBit(b) == IF b THEN 1 ELSE 0

RECURSIVE BitAndN(_, _, _)
BitAndN(a, b, n) ==
    IF n = 0 THEN 0
    ELSE 2 * BitAndN(a \div 2, b \div 2, n - 1) + (IF a % 2 = 1 /\ b % 2 = 1 THEN 1 ELSE 0)

BitAnd(a, b) == BitAndN(a, b, 16)
BitOr(a, b) == a + b - BitAnd(a, b)
BitXor(a, b) == a + b - 2 * BitAnd(a, b)

(***************************************************************************)
(* Results.                                                                *)
(***************************************************************************)
Ok(v) == [st |-> "ok", err |-> "", val |-> v]
Err(msg) == [st |-> "err", err |-> msg, val |-> 0]
Panic(msg) == [st |-> "panic", err |-> msg, val |-> 0]

\* results of the functions that take &mut Console
Done(s) == [st |-> "ok", err |-> "", snes |-> s, val |-> 0]
DoneVal(s, v) == [st |-> "ok", err |-> "", snes |-> s, val |-> v]
Fail(s, msg) == [st |-> "err", err |-> msg, snes |-> s, val |-> 0]
Crash(s, msg) == [st |-> "panic", err |-> msg, snes |-> s, val |-> 0]
\* the result r of a read made by a function that has brought the console to s
FromRead(s, r) == [st |-> r.st, err |-> r.err, snes |-> s, val |-> r.val]
\* the ? operator on such results, followed by the rest of the body
Then(r, F(_)) == IF r.st = "ok" THEN F(r.snes) ELSE r
ThenVal(r, F(_, _)) == IF r.st = "ok" THEN F(r.snes, r.val) ELSE r

(***************************************************************************)
(* The work RAM: a Vec<u8> of RamLen zero bytes, kept as the function from *)
(* the indices of its non-zero bytes to their values.                      *)
(***************************************************************************)
RamLen == \h200000

RamGet(ram, i) == IF i \in DOMAIN ram THEN ram[i] ELSE 0

RamSet(ram, i, v) ==
    [j \in (DOMAIN ram \ {i}) \cup (IF v = 0 THEN {} ELSE {i}) |->
        IF j = i THEN v ELSE ram[j]]

(***************************************************************************)
(* The cartridge: rom_data is the file's bytes, kept as its leading bytes  *)
(* (data) followed by zeros up to len; header.rom_size is the size the     *)
(* header declares, which the loader does not compare with the file.       *)
(***************************************************************************)
RomGet(cart, i) == IF (i + 1) \in DOMAIN cart.data THEN cart.data[i + 1] ELSE 0

bank_of(addr) == (addr \div \h10000) % \h100
addr_word_of(addr) == addr % \h10000

\* the system banks without their mirror at 0x80-0xBF
SystemBank_low(bank) == bank < \h40

\* the guards of the match arms of read_byte .. write_byte
SystemBank(bank) == bank < \h40 \/ (bank >= \h80 /\ bank < \hC0)
IsMmio(addr) ==
    SystemBank(bank_of(addr)) /\ addr_word_of(addr) >= \h4200 /\ addr_word_of(addr) < \h4220
IsDma(addr) ==
    SystemBank(bank_of(addr)) /\ addr_word_of(addr) >= \h4300 /\ addr_word_of(addr) < \h4380
IsRom(addr) ==
    \/ addr_word_of(addr) >= \h8000 /\ (bank_of(addr) < \h40 \/ bank_of(addr) >= \h80)
    \/ bank_of(addr) >= \hC0
    \/ bank_of(addr) >= \h40 /\ bank_of(addr) < \h7E
IsRam(addr) ==
    \/ bank_of(addr) >= \h7E /\ bank_of(addr) < \h80
    \/ SystemBank(bank_of(addr)) /\ addr_word_of(addr) < \h2000
IsRegisterWindow(addr) ==
    bank_of(addr) % \h80 < \h40 /\ addr_word_of(addr) >= \h2000 /\ addr_word_of(addr) < \h8000

\* every cartridge addressed as a HiROM one
rom_addr_flat(cart, addr) == addr % \h400000

rom_addr_of(cart, addr) ==
    CASE cart.map_mode = "LoROM" ->
            LET page == IF bank_of(addr) >= \h80 THEN bank_of(addr) - \h80 ELSE bank_of(addr)
                tempaddr == IF addr >= \h800000 THEN addr - \h800000 ELSE addr
            IN  tempaddr - (page + 1) * \h8000
      [] cart.map_mode = "HiROM" -> addr % \h400000
      [] OTHER ->
            (addr % \h400000) + (IF (addr \div \h800000) % 2 = 1 THEN 0 ELSE \h400000)

read_rom_byte(cart, addr) ==
    LET rom_addr == rom_addr_of(cart, addr)
    IN  IF ~(rom_addr < cart.rom_size) THEN Err("OutOfRomBounds")
        ELSE IF cart.map_mode = "LoROM" /\ ~(rom_addr < cart.len) THEN Err("OutOfRomVector")
        ELSE IF ~(rom_addr < cart.len) THEN Panic("index out of bounds")
        ELSE Ok(RomGet(cart, rom_addr))

peek_rom_byte(cart, addr) ==
    LET rom_addr == rom_addr_of(cart, addr)
    IN  IF ~(rom_addr < cart.rom_size) THEN Err("OutOfRomBounds")
        ELSE IF ~(rom_addr < cart.len) THEN Panic("index out of bounds")
        ELSE Ok(RomGet(cart, rom_addr))

read_rom_word(cart, addr) ==
    LET rom_addr == rom_addr_of(cart, addr)
    IN  IF ~(rom_addr < cart.rom_size) THEN Err("OutOfRomBounds")
        ELSE IF ~(rom_addr + 1 < cart.len) THEN Panic("index out of bounds")
        ELSE Ok(Word(RomGet(cart, rom_addr + 1), RomGet(cart, rom_addr)))

peek_rom_word(cart, addr) == read_rom_word(cart, addr)

read_ram_byte(ram, addr) == Ok(RamGet(ram, addr % \h20000))

read_ram_word(ram, addr) ==
    Ok(Word(RamGet(ram, (addr % \h20000) + 1), RamGet(ram, addr % \h20000)))

peek_ram_byte(ram, addr) == read_ram_byte(ram, addr)
peek_ram_word(ram, addr) == read_ram_word(ram, addr)

\* read_mmio_byte with an open default arm: unlisted registers read as zero
read_mmio_byte_open(s, addr_word) ==
    CASE addr_word = \h4212 -> IF s.cpu.P.n THEN Ok(0) ELSE Ok(\hFF)
      [] OTHER -> Ok(0)

read_mmio_byte(s, addr_word) ==
    CASE addr_word = \h4212 -> IF s.cpu.P.n THEN Ok(0) ELSE Ok(\hFF)
      [] addr_word >= \h4210 /\ addr_word <= \h421F -> Ok(0)
      [] OTHER -> Err("UnknownRegister")

read_byte(s, addr) ==
    CASE IsMmio(addr) -> read_mmio_byte(s, addr_word_of(addr))
      [] IsRom(addr) -> read_rom_byte(s.cartridge, addr)
      [] IsRam(addr) -> read_ram_byte(s.ram, addr)
      [] OTHER -> Err("BadAddress")

peek_byte(s, addr) ==
    CASE IsMmio(addr) -> Err("UnknownRegister")
      [] IsRom(addr) -> peek_rom_byte(s.cartridge, addr)
      [] IsRam(addr) -> peek_ram_byte(s.ram, addr)
      [] OTHER -> Err("BadAddress")

read_word(s, addr) ==
    CASE IsMmio(addr) -> Err("UnknownRegister")
      [] IsRom(addr) -> read_rom_word(s.cartridge, addr)
      [] IsRam(addr) -> read_ram_word(s.ram, addr)
      [] OTHER -> Err("BadAddress")

peek_word(s, addr) ==
    CASE IsMmio(addr) -> Err("UnknownRegister")
      [] IsRom(addr) -> peek_rom_word(s.cartridge, addr)
      [] IsRam(addr) -> peek_ram_word(s.ram, addr)
      [] OTHER -> Err("BadAddress")

\* write_ram_byte indexing the RAM by the offset within the bank alone
write_ram_byte_offset(s, addr, val) ==
    Done([s EXCEPT !.ram = RamSet(@, addr % \h10000, val)])

write_ram_byte(s, addr, val) ==
    Done([s EXCEPT !.ram = RamSet(@, addr % \h20000, val)])

write_ram_word(s, addr, val) ==
    Done([s EXCEPT !.ram = RamSet(RamSet(@, addr % \h20000, Lo(val)),
                                   (addr % \h20000) + 1, Hi(val))])

write_register_byte(s, addr, val) == Done(s)

write_mmio_byte(s, addr_word, data) ==
    CASE addr_word = \h4200 -> Done([s EXCEPT !.mmio.NMITIMEN = data])
      [] addr_word = \h4201 -> Done(s)
      [] addr_word = \h4202 -> Done([s EXCEPT !.mmio.WRMPYA = data])
      [] addr_word = \h4203 -> Done([s EXCEPT !.mmio.WRMPYB = data])
      [] addr_word = \h4204 -> Done([s EXCEPT !.mmio.WRDIVL = data])
      [] addr_word = \h4205 -> Done([s EXCEPT !.mmio.WRDIVH = data])
      [] addr_word = \h4206 -> Done([s EXCEPT !.mmio.WRDIVB = data])
      [] addr_word = \h4207 -> Done([s EXCEPT !.mmio.HTIMEL = data])
      [] addr_word = \h4208 -> Done([s EXCEPT !.mmio.HTIMEH = data])
      [] addr_word = \h4209 -> Done([s EXCEPT !.mmio.VTIMEL = data])
      [] addr_word = \h420A -> Done([s EXCEPT !.mmio.VTIMEH = data])
      [] addr_word = \h420B -> Done([s EXCEPT !.dma.MDMAEN = data])
      [] addr_word = \h420C -> Done([s EXCEPT !.dma.HDMAEN = data])
      [] addr_word = \h420D -> Done([s EXCEPT !.mmio.MEMSEL = data])
      [] OTHER -> Fail(s, "UnknownRegister")

dma_no_of(addr) == (addr_word_of(addr) \div \h10) % \h10
dma_reg_of(addr) == addr_word_of(addr) % \h10

write_dma_byte(s, dma_no, dma_reg, data) ==
    CASE dma_reg = 0 -> Done([s EXCEPT !.dma.DMAPn[dma_no] = data])
      [] dma_reg = 1 -> Done([s EXCEPT !.dma.BBADn[dma_no] = data])
      [] dma_reg = 2 -> Done([s EXCEPT !.dma.A1TnL[dma_no] = data])
      [] dma_reg = 3 -> Done([s EXCEPT !.dma.A1TnH[dma_no] = data])
      [] dma_reg = 4 -> Done([s EXCEPT !.dma.A1nB[dma_no] = data])
      [] dma_reg = 5 -> Done([s EXCEPT !.dma.DASnL[dma_no] = data])
      [] dma_reg = 6 -> Done([s EXCEPT !.dma.DASnH[dma_no] = data])
      [] dma_reg = 7 -> Done([s EXCEPT !.dma.DASBn[dma_no] = data])
      [] dma_reg = 8 -> Done([s EXCEPT !.dma.A2TnL[dma_no] = data])
      [] dma_reg = 9 -> Done([s EXCEPT !.dma.A2TnH[dma_no] = data])
      [] dma_reg = 10 -> Done([s EXCEPT !.dma.NLTRn[dma_no] = data])
      [] dma_reg = 11 \/ dma_reg = 15 -> Done([s EXCEPT !.dma.UNUSEDn[dma_no] = data])
      [] OTHER -> Fail(s, "UnknownRegister")

write_dma_word(s, dma_no, dma_reg, data) ==
    CASE dma_reg = 2 ->
            Done([s EXCEPT !.dma.A1TnL[dma_no] = Lo(data), !.dma.A1TnH[dma_no] = Hi(data)])
      [] dma_reg = 5 ->
            Done([s EXCEPT !.dma.DASnL[dma_no] = Lo(data), !.dma.DASnH[dma_no] = Hi(data)])
      [] dma_reg = 8 ->
            Done([s EXCEPT !.dma.A2TnL[dma_no] = Lo(data), !.dma.A2TnH[dma_no] = Hi(data)])
      [] OTHER -> Fail(s, "UnknownRegister")

\* a ROM arm that lets the byte through to the RAM behind it
write_rom_byte_through(s, addr, data) ==
    Done([s EXCEPT !.ram = RamSet(@, addr % \h20000, data)])

write_rom_byte(s, addr, data) == Fail(s, "WriteToReadOnly")
write_rom_word(s, addr, data) == Fail(s, "WriteToReadOnly")

write_byte(s, addr, data) ==
    CASE IsMmio(addr) -> write_mmio_byte(s, addr_word_of(addr), data)
      [] IsDma(addr) ->
            IF dma_no_of(addr) < 8
            THEN write_dma_byte(s, dma_no_of(addr), dma_reg_of(addr), data)
            ELSE Fail(s, "BadAddress")
      [] IsRom(addr) -> write_rom_byte(s, addr, data)
      [] IsRam(addr) -> write_ram_byte(s, addr, data)
      [] IsRegisterWindow(addr) -> write_register_byte(s, addr, data)
      [] OTHER -> Fail(s, "BadAddress")

write_word(s, addr, data) ==
    CASE IsMmio(addr) -> Fail(s, "UnknownRegister")
      [] IsDma(addr) ->
            IF dma_no_of(addr) < 8
            THEN write_dma_word(s, dma_no_of(addr), dma_reg_of(addr), data)
            ELSE Fail(s, "BadAddress")
      [] IsRom(addr) -> write_rom_word(s, addr, data)
      [] IsRam(addr) -> write_ram_word(s, addr, data)
      [] OTHER -> Fail(s, "BadAddress")

(***************************************************************************)
(* The instruction decoder (cpu.rs).  Mnemonics and addressing modes are   *)
(* the strings of their names in the enums OpCode and AddrMode.            *)
(***************************************************************************)
OLD_OPCODES ==
    {
      "LDA", "LDX", "LDY", "STA", "STX", "STY", "STZ", "PHA", "PHX", "PHY", "PHP",
      "PLA", "PLX", "PLY", "PLP", "TSX", "TXS", "INX", "INY", "DEX", "DEY", "INC",
      "DEC", "ASL", "LSR", "ROL", "ROR", "AND", "ORA", "EOR", "BIT", "CMP", "CPX",
      "CPY", "TRB", "TSB", "ADC", "SBC", "JMP", "JSR", "RTS", "RTI", "BRA", "BEQ",
      "BNE", "BCC", "BCS", "BVC", "BVS", "BMI", "BPL", "CLC", "CLD", "CLI", "CLV",
      "SEC", "SED", "SEI", "TAX", "TAY", "TXA", "TYA", "NOP", "BRK", "PEI"
    }

OpcodeTable ==
    <<
       "BRK", "ORA", "COP", "ORA", "TSB", "ORA", "ASL", "ORA",
       "PHP", "ORA", "ASL", "PHD", "TSB", "ORA", "ASL", "ORA",
       "BPL", "ORA", "ORA", "ORA", "TRB", "ORA", "ASL", "ORA",
       "CLC", "ORA", "INC", "TCS", "TRB", "ORA", "ASL", "ORA",
       "JSR", "AND", "JSL", "AND", "BIT", "AND", "ROL", "AND",
       "PLP", "AND", "ROL", "PLD", "BIT", "AND", "ROL", "AND",
       "BMI", "AND", "AND", "AND", "BIT", "AND", "ROL", "AND",
       "SEC", "AND", "DEC", "TSC", "BIT", "AND", "ROL", "AND",
       "RTI", "EOR", "WDM", "EOR", "MVP", "EOR", "LSR", "EOR",
       "PHA", "EOR", "LSR", "PHK", "JMP", "EOR", "LSR", "EOR",
       "BVC", "EOR", "EOR", "EOR", "MVN", "EOR", "LSR", "EOR",
       "CLI", "EOR", "PHY", "TCD", "JMP", "EOR", "LSR", "EOR",
       "RTS", "ADC", "PER", "ADC", "STZ", "ADC", "ROR", "ADC",
       "PLA", "ADC", "ROR", "RTL", "JMP", "ADC", "ROR", "ADC",
       "BVS", "ADC", "ADC", "ADC", "STZ", "ADC", "ROR", "ADC",
       "SEI", "ADC", "PLY", "TDC", "JMP", "ADC", "ROR", "ADC",
       "BRA", "STA", "BRL", "STA", "STY", "STA", "STX", "STA",
       "DEY", "BIT", "TXA", "PHB", "STY", "STA", "STX", "STA",
       "BCC", "STA", "STA", "STA", "STY", "STA", "STX", "STA",
       "TYA", "STA", "TXS", "TXY", "STZ", "STA", "STZ", "STA",
       "LDY", "LDA", "LDX", "LDA", "LDY", "LDA", "LDX", "LDA",
       "TAY", "LDA", "TAX", "PLB", "LDY", "LDA", "LDX", "LDA",
       "BCS", "LDA", "LDA", "LDA", "LDY", "LDA", "LDX", "LDA",
       "CLV", "LDA", "TSX", "TYX", "LDY", "LDA", "LDX", "LDA",
       "CPY", "CMP", "REP", "CMP", "CPY", "CMP", "DEC", "CMP",
       "INY", "CMP", "DEX", "WAI", "CPY", "CMP", "DEC", "CMP",
       "BNE", "CMP", "CMP", "CMP", "PEI", "CMP", "DEC", "CMP",
       "CLD", "CMP", "PHX", "STP", "JML", "CMP", "DEC", "CMP",
       "CPX", "SBC", "SEP", "SBC", "CPX", "SBC", "INC", "SBC",
       "INX", "SBC", "NOP", "XBA", "CPX", "SBC", "INC", "SBC",
       "BEQ", "SBC", "SBC", "SBC", "PEA", "SBC", "INC", "SBC",
       "SED", "SBC", "PLX", "XCE", "JSR", "SBC", "INC", "SBC"
    >>

opcode_of(instruction) == OpcodeTable[instruction + 1]

is_branch(op) == op \in {"BRA", "BCC", "BCS", "BEQ", "BMI", "BNE", "BPL", "BVC", "BVS"}
is_jump(op) == op \in {"JMP", "JSR", "JML", "JSL"}
is_interrupt(op) == op \in {"BRK", "COP"}
is_subroutine(op) == op \in {"JML", "JSR"}
is_return(op) == op \in {"RTS", "RTI", "RTL"}
is_old(op) == op \in OLD_OPCODES

uses_x(op) ==
    op \in {"CPX", "CPY", "DEX", "DEY", "INX", "INY", "LDX", "LDY", "STX", "STY",
            "PHX", "PHY", "PLX", "PLY", "TAX", "TAY", "TSX", "TXS", "TXY", "TYX"}

uses_m(op) ==
    op \in {"ADC", "SBC", "AND", "EOR", "ORA", "ASL", "LSR", "ROL", "ROR", "BIT", "CMP",
            "DEC", "INC", "LDA", "STA", "STZ", "PHA", "PLA", "TRB", "TSB", "TXA", "TYA"}

\* the opcodes decode_addressing_mode matches before it looks at the bit fields
ImpliedOpcodes ==
    {\h00, \h08, \h0B, \h18, \h1B, \h28, \h2B, \h38, \h3B, \h40, \h48, \h4B,
     \h58, \h5A, \h5B, \h60, \h68, \h6B, \h78, \h7A, \h7B, \h88, \h8A, \h8B,
     \h98, \h9A, \h9B, \hA8, \hAA, \hAB, \hB8, \hBA, \hBB, \hC8, \hCA, \hCB,
     \hD8, \hDA, \hDB, \hE8, \hEA, \hEB, \hF8, \hFA, \hFB}

Bail == "bail"

\* the match on cc and bbb: the mode, or Bail where the source bails
ModeTable ==
    <<
       <<"Immediate", "Direct", Bail, "Absolute", Bail, "DirectX", Bail, "AbsoluteX">>,
       <<"IndexedDirectWord", "Direct", "Immediate", "Absolute",
         "DirectIndexedWord", "DirectX", "AbsoluteY", "AbsoluteX">>,
       <<"Immediate", "Direct", "Accumulator", "Absolute",
         "DirectWord", "DirectX", Bail, "AbsoluteX">>,
       <<"Stack", "DirectSWord", Bail, "Long",
         "StackIndexed", "DirectIndexedSWord", Bail, "LongX">>
    >>

special_mode(opcode) ==
    CASE opcode \in ImpliedOpcodes -> "Implied"
      [] opcode \in {\h0A, \h1A, \h2A, \h3A, \h4A, \h6A} -> "Accumulator"
      [] opcode \in {\h14, \h64, \hD4} -> "Direct"
      [] opcode \in {\h1C, \h20, \h9C} -> "Absolute"
      [] opcode \in {\h22, \h5C} -> "Long"
      [] opcode \in {\h44, \h52} -> "SourceDestination"
      [] opcode = \hDC -> "AbsoluteSWord"
      [] opcode = \h6C -> "AbsoluteIndirectWord"
      [] opcode = \h74 -> "DirectX"
      [] opcode \in {\h7C, \hFC} -> "AbsoluteIndexedIndirect"
      [] opcode \in {\h10, \h30, \h50, \h70, \h80, \h90, \hB0, \hD0, \hF0} -> "RelativeByte"
      [] opcode = \h82 -> "RelativeWord"
      [] opcode \in {\h02, \h42, \h62, \h89, \hC2, \hE2, \hF4} -> "Immediate"
      [] opcode = \h9E -> "AbsoluteX"
      [] OTHER -> "none"

\* decoding by the bit fields aaabbbcc alone, without the table of special opcodes
decode_by_fields(opcode) ==
    LET mode == ModeTable[(opcode % 4) + 1][((opcode \div 4) % 8) + 1]
    IN  IF mode = Bail THEN Err("UnknownOpcode") ELSE Ok(mode)

decode_addressing_mode(opcode) ==
    LET bbb == (opcode \div 4) % 8
        cc == opcode % 4
        mode == ModeTable[cc + 1][bbb + 1]
    IN  IF special_mode(opcode) # "none" THEN Ok(special_mode(opcode))
        ELSE IF mode = Bail THEN Err("UnknownOpcode")
        ELSE Ok(mode)

\* InstructionContext::length; two arms are todo!()
length(opcode, mode, m, x) ==
    CASE opcode \in {"REP", "SEP"} -> Ok(2)
      [] opcode \in {"PEA", "PER"} -> Ok(3)
      [] mode \in {"Absolute", "AbsoluteWord", "AbsoluteSWord", "AbsoluteX", "AbsoluteY",
                   "AbsoluteIndirectWord"} -> Ok(3)
      [] mode \in {"AbsoluteIndirectSWord", "AbsoluteIndexedIndirect"} -> Panic("todo")
      [] mode = "Accumulator" -> Ok(1)
      [] mode \in {"Direct", "DirectX", "DirectY"} -> Ok(2)
      [] mode = "DirectWord" -> Ok(3)
      [] mode \in {"DirectSWord", "IndexedDirectWord", "DirectIndexedWord",
                   "DirectIndexedSWord"} -> Ok(2)
      [] mode = "Immediate" ->
            IF uses_m(opcode) THEN Ok(3 - BoolBit(m))
            ELSE IF uses_x(opcode) THEN Ok(3 - BoolBit(x))
            ELSE Ok(3)
      [] mode = "Implied" -> Ok(1)
      [] mode \in {"Long", "LongX"} -> Ok(4)
      [] mode = "RelativeByte" -> Ok(2)
      [] mode = "RelativeWord" -> Ok(3)
      [] mode = "SourceDestination" -> Ok(3)
      [] mode \in {"Stack", "StackIndexed"} -> Ok(2)

(***************************************************************************)
(* u16 arithmetic written with + and -: it panics in a build with overflow *)
(* checks and wraps in one without.                                        *)
(***************************************************************************)
CheckedU16(v) ==
    IF v >= 0 /\ v < U16 THEN Ok(v)
    ELSE IF overflow_checks THEN Panic("overflow")
    ELSE Ok(v % U16)

\* Result<T> -> Result<U>: the ? operator followed by the rest of the body
AndThen(r, F(_)) == IF r.st = "ok" THEN F(r.val) ELSE r

get_pc(cpu) == cpu.K * U16 + cpu.PC

set_pc(cpu, addr) == [cpu EXCEPT !.PC = addr % U16, !.K = (addr \div U16) % U8]

\* the emulation-mode direct page test of calculate_address
ZeroPageWrap(cpu) == cpu.P.e /\ cpu.D % \h100 = 0

direct_base(cpu, l) ==
    IF ZeroPageWrap(cpu) THEN BitOr(Hi(cpu.D), l) ELSE cpu.D + l

pointer_at(s, temp_addr) ==
    AndThen(read_word(s, temp_addr), LAMBDA pointer : Ok(s.cpu.DBR * U16 + pointer))

long_operand(s, h, l) ==
    AndThen(read_byte(s, get_pc(s.cpu) + 3), LAMBDA hh : Ok(hh * U16 + h * \h100 + l))

relative_byte(cpu, l) ==
    LET temp == IF l <= \h7F
                THEN CheckedU16(cpu.PC + 2 + l)
                ELSE IF cpu.PC < 254 /\ overflow_checks THEN Panic("overflow")
                ELSE CheckedU16(cpu.PC - 254 + l)
    IN  AndThen(temp, LAMBDA t : Ok(cpu.K * U16 + t))

mode_address(s, op, mode, l, h) ==
    LET cpu == s.cpu
    IN  CASE mode = "Absolute" ->
                IF is_jump(op) THEN Ok(cpu.K * U16 + h * \h100 + l)
                ELSE Ok(cpu.DBR * U16 + h * \h100 + l)
          [] mode \in {"AbsoluteWord", "AbsoluteSWord"} -> Ok(h * \h100 + l)
          [] mode = "AbsoluteX" -> Ok(cpu.DBR * U16 + h * \h100 + l + cpu.X)
          [] mode = "AbsoluteY" -> Ok(cpu.DBR * U16 + h * \h100 + l + cpu.Y)
          [] mode = "AbsoluteIndirectWord" ->
                AndThen(read_word(s, h * \h100 + l), LAMBDA w : Ok(cpu.K * U16 + w))
          [] mode = "AbsoluteIndirectSWord" ->
                AndThen(read_word(s, h * \h100 + l), LAMBDA low :
                    AndThen(read_byte(s, h * \h100 + l + 2), LAMBDA high :
                        Ok(high * U16 + low)))
          [] mode = "AbsoluteIndexedIndirect" -> Ok(cpu.K * U16 + h * \h100 + l + cpu.X)
          [] mode \in {"Accumulator", "Implied"} -> Ok(get_pc(cpu))
          [] mode = "Direct" ->
                IF ZeroPageWrap(cpu) /\ is_old(op) THEN Ok(BitOr(Hi(cpu.D), l))
                ELSE Ok(cpu.D + l)
          [] mode = "DirectX" ->
                IF ZeroPageWrap(cpu) THEN Ok(BitOr(Hi(cpu.D), (Lo(cpu.X) + l) % U8))
                ELSE Ok(cpu.D + l + cpu.X)
          [] mode = "DirectY" ->
                IF ZeroPageWrap(cpu) THEN Ok(BitOr(Hi(cpu.D), (Lo(cpu.Y) + l) % U8))
                ELSE Ok(cpu.D + l + cpu.Y)
          [] mode = "DirectWord" -> pointer_at(s, direct_base(cpu, l))
          [] mode = "DirectSWord" -> pointer_at(s, cpu.D + l)
          [] mode = "IndexedDirectWord" -> pointer_at(s, direct_base(cpu, l) + cpu.X)
          [] mode = "DirectIndexedWord" ->
                AndThen(pointer_at(s, direct_base(cpu, l)), LAMBDA a : Ok(a + cpu.Y))
          [] mode = "DirectIndexedSWord" ->
                AndThen(read_byte(s, cpu.D + l), LAMBDA pointer_lo :
                    AndThen(read_byte(s, cpu.D + l + 1), LAMBDA pointer_mid :
                        AndThen(read_byte(s, cpu.D + l + 2), LAMBDA pointer_hi :
                            Ok(pointer_hi * U16 + pointer_mid * \h100 + pointer_lo + cpu.Y))))
          [] mode = "Immediate" -> Ok(get_pc(cpu) + 1)
          [] mode = "Long" -> long_operand(s, h, l)
          [] mode = "LongX" -> AndThen(long_operand(s, h, l), LAMBDA temp : Ok(temp + cpu.X))
          [] mode = "RelativeByte" -> relative_byte(cpu, l)
          [] mode = "RelativeWord" -> Ok(cpu.K * U16 + ((cpu.PC + 3 + h * \h100 + l) % U16))
          [] mode = "SourceDestination" -> Ok(h * U16 + cpu.Y)
          [] mode = "Stack" -> CheckedU16(l + cpu.S)
          [] mode = "StackIndexed" ->
                AndThen(CheckedU16(l + cpu.S), LAMBDA a0 :
                    AndThen(read_byte(s, a0), LAMBDA low :
                        AndThen(CheckedU16(l + cpu.S + 1), LAMBDA a1 :
                            AndThen(read_byte(s, a1), LAMBDA high :
                                Ok(cpu.DBR * U16 + high * \h100 + low + cpu.Y)))))

calculate_address(s, op, mode, loc) ==
    AndThen(peek_byte(s, loc + 1), LAMBDA l :
        AndThen(peek_byte(s, loc + 2), LAMBDA h :
            AndThen(mode_address(s, op, mode, l, h), LAMBDA addr :
                Ok([addr |-> addr,
                    dest |-> IF mode = "SourceDestination"
                             THEN <<l * U16 + s.cpu.X>> ELSE <<>>]))))

\* decode_instruction: the InstructionContext, or the error of the decoder
decode_instruction(s, instruction, loc) ==
    AndThen(decode_addressing_mode(instruction), LAMBDA mode :
        AndThen(calculate_address(s, opcode_of(instruction), mode, loc), LAMBDA address :
            Ok([opcode |-> opcode_of(instruction),
                mode |-> mode,
                inst_addr |-> loc,
                data_addr |-> address.addr,
                dest_addr |-> address.dest])))

(***************************************************************************)
(* The CPU (cpu.rs): registers, the flag byte and the stack.               *)
(***************************************************************************)
Flags_new ==
    [n |-> FALSE, v |-> FALSE, m |-> FALSE, x |-> FALSE, d |-> FALSE,
     i |-> FALSE, z |-> FALSE, c |-> FALSE, e |-> TRUE, b |-> FALSE]

CPU_new ==
    [A |-> 0, X |-> 0, Y |-> 0, S |-> 0, DBR |-> 0, D |-> 0, K |-> 0,
     P |-> Flags_new, PC |-> 0]

p_byte(cpu) ==
    BoolBit(cpu.P.n) * 128 + BoolBit(cpu.P.v) * 64 + BoolBit(cpu.P.m) * 32
    + BoolBit(cpu.P.x /\ ~cpu.P.e) * 16 + BoolBit(cpu.P.d) * 8
    + BoolBit(cpu.P.i) * 4 + BoolBit(cpu.P.z) * 2 + BoolBit(cpu.P.c)

set_p(cpu, p) ==
    [cpu EXCEPT !.P = [@ EXCEPT !.c = Bit(p, 0), !.z = Bit(p, 1), !.i = Bit(p, 2),
                                !.d = Bit(p, 3), !.x = Bit(p, 4) \/ cpu.P.e,
                                !.m = Bit(p, 5), !.v = Bit(p, 6), !.n = Bit(p, 7)]]

\* S with its low byte replaced (emulation mode keeps the high byte)
WithSL(s, sl) == [s EXCEPT !.cpu.S = Hi(@) * \h100 + (sl % U8)]
\* S moved by k with wrapping_add / wrapping_sub
MoveS(s, k) == [s EXCEPT !.cpu.S = (@ + k) % U16]

push_byte(s, data) ==
    IF s.cpu.P.e
    THEN Then(write_byte(s, \h100 + Lo(s.cpu.S), data), LAMBDA t :
            Done(WithSL(t, Lo(s.cpu.S) - 1)))
    ELSE Then(write_byte(s, s.cpu.S, data), LAMBDA t : Done(MoveS(t, -1)))

pull_byte(s) ==
    IF s.cpu.P.e
    THEN FromRead(WithSL(s, Lo(s.cpu.S) + 1),
                  read_byte(WithSL(s, Lo(s.cpu.S) + 1), \h100 + ((Lo(s.cpu.S) + 1) % U8)))
    ELSE FromRead(MoveS(s, 1), read_byte(MoveS(s, 1), (s.cpu.S + 1) % U16))

push_word(s, data) ==
    IF s.cpu.P.e
    THEN Then(write_byte(s, \h100 + Lo(s.cpu.S), Hi(data)), LAMBDA t :
            Then(write_byte(t, \h100 + ((Lo(s.cpu.S) - 1) % U8), Lo(data)), LAMBDA u :
                Done(WithSL(u, Lo(s.cpu.S) - 2))))
    ELSE Then(write_byte(s, s.cpu.S, Hi(data)), LAMBDA t :
            Then(write_byte(MoveS(t, -1), MoveS(t, -1).cpu.S, Lo(data)), LAMBDA u :
                Done(MoveS(u, -1))))

pull_word(s) ==
    IF s.cpu.P.e
    THEN LET sl1 == (Lo(s.cpu.S) + 1) % U8
             sl2 == (Lo(s.cpu.S) + 2) % U8
         IN  ThenVal(FromRead(s, read_byte(s, \h100 + sl1)), LAMBDA t, datal :
                ThenVal(FromRead(t, read_byte(t, \h100 + sl2)), LAMBDA u, datah :
                    DoneVal(WithSL(u, sl2), Word(datah, datal))))
    ELSE ThenVal(FromRead(MoveS(s, 1), read_byte(MoveS(s, 1), MoveS(s, 1).cpu.S)),
            LAMBDA t, datal :
                ThenVal(FromRead(MoveS(t, 1), read_byte(MoveS(t, 1), MoveS(t, 1).cpu.S)),
                    LAMBDA u, datah : DoneVal(u, Word(datah, datal))))

push_sword(s, data) ==
    Then(write_byte(s, s.cpu.S, Hi(data)), LAMBDA t :
        Then(write_byte(MoveS(t, -1), MoveS(t, -1).cpu.S, (data \div U16) % U8), LAMBDA u :
            Then(write_byte(MoveS(u, -1), MoveS(u, -1).cpu.S, (data \div U24) % U8),
                LAMBDA w : Done(MoveS(w, -1)))))

pull_sword(s) ==
    ThenVal(FromRead(MoveS(s, 1), read_byte(MoveS(s, 1), MoveS(s, 1).cpu.S)),
        LAMBDA t, datal :
            ThenVal(FromRead(MoveS(t, 1), read_byte(MoveS(t, 1), MoveS(t, 1).cpu.S)),
                LAMBDA u, datam :
                    ThenVal(FromRead(MoveS(u, 1), read_byte(MoveS(u, 1), MoveS(u, 1).cpu.S)),
                        LAMBDA w, datah :
                            DoneVal(w, datah * U16 + datam * \h100 + datal))))

execute_nmi(s) ==
    Then(push_byte(s, s.cpu.K), LAMBDA t :
        Then(push_word(t, t.cpu.PC), LAMBDA u :
            Then(push_byte(u, p_byte(u.cpu)), LAMBDA w :
                Done([w EXCEPT !.cpu.PC = w.cartridge.vectors.nmi, !.cpu.K = 0]))))

\* PC += instruction.length(P.m, P.x), the end of both executors
advance_pc(s, instruction) ==
    LET len == length(instruction.opcode, instruction.mode, s.cpu.P.m, s.cpu.P.x)
        pc == CheckedU16(s.cpu.PC + len.val)
    IN  IF len.st # "ok" THEN Crash(s, len.err)
        ELSE IF pc.st # "ok" THEN Crash(s, pc.err)
        ELSE DoneVal([s EXCEPT !.cpu.PC = pc.val], "Normal")

execute_instruction_emu(s, instruction) ==
    CASE instruction.opcode = "BRK" ->
            Then(push_word(s, (instruction.inst_addr % \h100) + 2), LAMBDA t :
                Then(push_byte(t, BitOr(p_byte(t.cpu), \h10)), LAMBDA u :
                    DoneVal([u EXCEPT !.cpu.K = 0,
                                      !.cpu.PC = u.cartridge.vectors.brk_emu,
                                      !.cpu.P.i = TRUE,
                                      !.cpu.P.d = FALSE], "Interrupt")))
      [] instruction.opcode = "JMP" ->
            DoneVal([s EXCEPT !.cpu = set_pc(@, instruction.data_addr)], "Jump")
      [] instruction.opcode = "SEI" ->
            advance_pc([s EXCEPT !.cpu.P.i = TRUE], instruction)
      [] instruction.opcode = "CLC" ->
            advance_pc([s EXCEPT !.cpu.P.c = FALSE], instruction)
      [] instruction.opcode = "XCE" ->
            advance_pc([s EXCEPT !.cpu.P.c = s.cpu.P.e, !.cpu.P.e = s.cpu.P.c], instruction)
      [] OTHER -> Crash(s, "todo")

(***************************************************************************)
(* The native-mode executor (cpu.rs, execute_instruction).  Each operator  *)
(* is one arm of its match, or several arms whose code differs only in the *)
(* register and the width flag they name.  An arm ends with the tag it     *)
(* returns; "Normal" is the arm that falls through to PC += length.        *)
(***************************************************************************)
Normal(s) == DoneVal(s, "Normal")
\* let v = read(...)?; followed by the rest of the arm
ReadThen(s, r, F(_)) == IF r.st = "ok" THEN F(r.val) ELSE FromRead(s, r)
SetNZ(s, n, z) == [s EXCEPT !.cpu.P.n = n, !.cpu.P.z = z]
\* reg &= 0xFF00; reg |= byte
SetLow(s, reg, byte) == [s EXCEPT !.cpu[reg] = Hi(@) * \h100 + byte]
SetReg(s, reg, v) == [s EXCEPT !.cpu[reg] = v]

exec_JMP(s, instruction) ==
    DoneVal([s EXCEPT !.cpu = set_pc(@, instruction.data_addr)], "Jump")

exec_JSL(s, instruction) ==
    Then(push_byte(s, s.cpu.K), LAMBDA t :
        Then(push_word(t, (instruction.inst_addr + 3) % U16), LAMBDA u :
            DoneVal([u EXCEPT !.cpu = set_pc(@, instruction.data_addr)], "Subroutine")))

exec_JSR(s, instruction) ==
    Then(push_word(s, (instruction.inst_addr + 2) % U16), LAMBDA t :
        DoneVal([t EXCEPT !.cpu = set_pc(@, instruction.data_addr)], "Subroutine"))

exec_RTI(s) ==
    ThenVal(pull_byte(s), LAMBDA t, p :
        ThenVal(pull_word([t EXCEPT !.cpu = set_p(@, p)]), LAMBDA u, pc :
            ThenVal(pull_byte([u EXCEPT !.cpu.PC = pc]), LAMBDA w, k :
                DoneVal([w EXCEPT !.cpu.K = k], "Return"))))

adc_sum(a, data, c) ==
    LET a1 == (a + data) % U16
        a2 == (a1 + BoolBit(c)) % U16
    IN  [A |-> a2, overflow |-> (a + data >= U16) \/ (a1 + BoolBit(c) >= U16)]

exec_ADC(s, instruction) ==
    IF s.cpu.P.d THEN Crash(s, "unimplemented")
    ELSE ReadThen(s, read_word(s, instruction.data_addr), LAMBDA data :
            LET r == adc_sum(s.cpu.A, data, s.cpu.P.c)
            IN  Normal([s EXCEPT !.cpu.A = r.A,
                                 !.cpu.P.z = r.A = 0,
                                 !.cpu.P.n = r.A >= \h80,
                                 !.cpu.P.v = r.overflow,
                                 !.cpu.P.c = r.overflow]))

exec_AND(s, instruction) ==
    IF s.cpu.P.m
    THEN ReadThen(s, read_byte(s, instruction.data_addr), LAMBDA data :
            LET temp == BitAnd(Lo(s.cpu.A), data)
            IN  Normal(SetLow(SetNZ(s, Bit(temp, 7), temp = 0), "A", temp)))
    ELSE ReadThen(s, read_word(s, instruction.data_addr), LAMBDA data :
            LET temp == BitAnd(s.cpu.A, data)
            IN  Normal(SetReg(SetNZ(s, Bit(temp, 15), temp = 0), "A", temp)))

\* the flags of ASL: carry from bit top of the operand, N from temp >= 0x80
asl_flags(s, data, temp, top) ==
    [s EXCEPT !.cpu.P.c = Bit(data, top), !.cpu.P.z = temp = 0, !.cpu.P.n = temp >= \h80]

exec_ASL(s, instruction) ==
    IF instruction.mode = "Accumulator"
    THEN LET temp == (s.cpu.A * 2) % U16
         IN  Normal(SetReg(asl_flags(s, s.cpu.A, temp, IF s.cpu.P.m THEN 7 ELSE 15),
                           "A", temp))
    ELSE IF s.cpu.P.m
    THEN ReadThen(s, read_byte(s, instruction.data_addr), LAMBDA data :
            Then(write_byte(asl_flags(s, data, (data * 2) % U8, 7),
                            instruction.data_addr, (data * 2) % U8), Normal))
    ELSE ReadThen(s, read_word(s, instruction.data_addr), LAMBDA data :
            Then(write_word(asl_flags(s, data, (data * 2) % U16, 15),
                            instruction.data_addr, (data * 2) % U16), Normal))

\* BCC, BEQ, BRA, BPL, BMI, BNE: taken is the condition the arm tests
exec_branch(s, instruction, taken) ==
    IF taken
    THEN DoneVal([s EXCEPT !.cpu.PC = instruction.data_addr % U16], "BranchTaken")
    ELSE Normal(s)

exec_BIT(s, instruction) ==
    IF instruction.mode # "Immediate"
    THEN ReadThen(s, read_byte(s, instruction.data_addr), LAMBDA data :
            Normal([s EXCEPT !.cpu.P.z = BitAnd(Lo(s.cpu.A), data) = 0]))
    ELSE IF s.cpu.P.m
    THEN ReadThen(s, read_byte(s, instruction.data_addr), LAMBDA temp :
            Normal([s EXCEPT !.cpu.P.z = BitAnd(temp, Lo(s.cpu.A)) = 0,
                             !.cpu.P.n = Bit(temp, 7),
                             !.cpu.P.v = Bit(temp, 6)]))
    ELSE ReadThen(s, read_word(s, instruction.data_addr), LAMBDA temp :
            Normal([s EXCEPT !.cpu.P.z = BitAnd(temp, s.cpu.A) = 0,
                             !.cpu.P.n = Bit(temp, 15),
                             !.cpu.P.v = Bit(temp, 14)]))

exec_BRK(s, instruction) ==
    Then(push_byte(s, s.cpu.K), LAMBDA t :
        Then(push_word(t, (instruction.inst_addr % \h100) + 2), LAMBDA u :
            Then(push_byte(u, p_byte(u.cpu)), LAMBDA w :
                DoneVal([w EXCEPT !.cpu.K = 0, !.cpu.PC = w.cartridge.vectors.brk],
                        "Interrupt"))))

\* CMP, CPX, CPY: reg is the register compared, narrow its width flag
exec_compare(s, instruction, reg, narrow) ==
    ReadThen(s, IF narrow THEN read_byte(s, instruction.data_addr)
                ELSE read_word(s, instruction.data_addr), LAMBDA data :
        LET temp == (s.cpu[reg] - data) % U16
        IN  Normal([s EXCEPT !.cpu.P.n = temp >= \h80,
                             !.cpu.P.z = temp = 0,
                             !.cpu.P.c = s.cpu[reg] >= data]))

\* the register forms of DEC, INC (reg A, narrow P.m) and DEX, DEY, INX, INY
step_register(s, reg, narrow, delta) ==
    IF narrow
    THEN LET temp == (Lo(s.cpu[reg]) + delta) % U8
         IN  Normal(SetNZ(SetLow(s, reg, temp), Bit(temp, 7), temp = 0))
    ELSE LET temp == (s.cpu[reg] + delta) % U16
         IN  Normal(SetNZ(SetReg(s, reg, temp), Bit(temp, 15), temp = 0))

\* DEC, INC: delta is -1 or 1
exec_DEC_INC(s, instruction, delta) ==
    IF instruction.mode = "Accumulator" THEN step_register(s, "A", s.cpu.P.m, delta)
    ELSE IF s.cpu.P.m
    THEN ReadThen(s, read_byte(s, instruction.data_addr), LAMBDA data :
            Then(write_byte(s, instruction.data_addr, (data + delta) % U8), LAMBDA t :
                Normal(SetNZ(t, Bit((data + delta) % U8, 7), (data + delta) % U8 = 0))))
    ELSE ReadThen(s, read_word(s, instruction.data_addr), LAMBDA data :
            Then(write_word(s, instruction.data_addr, (data + delta) % U16), LAMBDA t :
                Normal(SetNZ(t, Bit((data + delta) % U16, 15), (data + delta) % U16 = 0))))

\* LSR and ROR: the two arms compute the same thing (ROR shifts no carry in,
\* and its N is a bit of a value that has lost its top bit)
shift_right_a(s, narrow) ==
    LET temp_a == IF narrow THEN Lo(s.cpu.A) \div 2 ELSE s.cpu.A \div 2
        t == [s EXCEPT !.cpu.P.c = s.cpu.A % 2 = 1,
                       !.cpu.A = BitOr(Hi(@) * \h100, temp_a)]
    IN  Normal(SetNZ(t, Bit(temp_a, IF narrow THEN 7 ELSE 15), temp_a = 0))

exec_LSR_ROR(s, instruction) ==
    IF instruction.mode = "Accumulator" THEN shift_right_a(s, s.cpu.P.m)
    ELSE IF s.cpu.P.m
    THEN ReadThen(s, read_byte(s, instruction.data_addr), LAMBDA temp :
            Then(write_byte([s EXCEPT !.cpu.P.c = temp % 2 = 1],
                            instruction.data_addr, temp \div 2), LAMBDA t :
                Normal(SetNZ(t, FALSE, temp \div 2 = 0))))
    ELSE ReadThen(s, read_word(s, instruction.data_addr), LAMBDA temp :
            Then(write_word([s EXCEPT !.cpu.P.c = temp % 2 = 1],
                            instruction.data_addr, temp \div 2), LAMBDA t :
                Normal(SetNZ(t, FALSE, temp \div 2 = 0))))

\* the value ROL writes back and the carry it sets, for an operand of the
\* given width: the carry is taken from the top four bits
rol_value(data, c, narrow) ==
    IF narrow THEN ((data % \h80) * 2) + BoolBit(c) ELSE ((data % \h8000) * 2) + BoolBit(c)
rol_carry(data, narrow) ==
    IF narrow THEN (data % \h100) >= \h10 ELSE data >= \h1000
\* Z after ROL: temp == 0 in the 8-bit arms, temp != 0 in the 16-bit arms
rol_zero(temp, narrow) == IF narrow THEN temp = 0 ELSE temp # 0

exec_ROL(s, instruction) ==
    LET narrow == s.cpu.P.m
        top == IF narrow THEN 7 ELSE 15
    IN  IF instruction.mode = "Accumulator"
        THEN LET temp_a == rol_value(IF narrow THEN Lo(s.cpu.A) ELSE s.cpu.A,
                                     s.cpu.P.c, narrow)
                 t == [s EXCEPT !.cpu.P.c = rol_carry(s.cpu.A, narrow)]
                 u == IF narrow THEN SetLow(t, "A", temp_a) ELSE SetReg(t, "A", temp_a)
             IN  Normal(SetNZ(u, Bit(temp_a, top), rol_zero(temp_a, narrow)))
        ELSE ReadThen(s, IF narrow THEN read_byte(s, instruction.data_addr)
                         ELSE read_word(s, instruction.data_addr), LAMBDA data :
                LET temp == rol_value(data, s.cpu.P.c, narrow)
                    t == [s EXCEPT !.cpu.P.c = rol_carry(data, narrow)]
                IN  Then(IF narrow THEN write_byte(t, instruction.data_addr, temp)
                         ELSE write_word(t, instruction.data_addr, temp), LAMBDA u :
                        Normal(SetNZ(u, Bit(temp, top), rol_zero(temp, narrow)))))

\* STA, STX, STY, STZ: value is the register stored (0 for STZ)
exec_store(s, instruction, narrow, value) ==
    IF narrow
    THEN Then(write_byte(s, instruction.data_addr, Lo(value)), Normal)
    ELSE Then(write_word(s, instruction.data_addr, value), Normal)

\* REP (set = FALSE) and SEP (set = TRUE): every flag named by a 1 bit
\* REP and SEP with the bits of the two width flags exchanged
rep_sep_flags_swapped(P, flags, set) ==
    [P EXCEPT !.c = IF Bit(flags, 0) THEN set ELSE @,
              !.z = IF Bit(flags, 1) THEN set ELSE @,
              !.i = IF Bit(flags, 2) THEN set ELSE @,
              !.d = IF Bit(flags, 3) THEN set ELSE @,
              !.m = IF Bit(flags, 4) THEN set ELSE @,
              !.x = IF Bit(flags, 5) THEN set ELSE @,
              !.v = IF Bit(flags, 6) THEN set ELSE @,
              !.n = IF Bit(flags, 7) THEN set ELSE @]

rep_sep_flags(P, flags, set) ==
    [P EXCEPT !.c = IF Bit(flags, 0) THEN set ELSE @,
              !.z = IF Bit(flags, 1) THEN set ELSE @,
              !.i = IF Bit(flags, 2) THEN set ELSE @,
              !.d = IF Bit(flags, 3) THEN set ELSE @,
              !.x = IF Bit(flags, 4) THEN set ELSE @,
              !.m = IF Bit(flags, 5) THEN set ELSE @,
              !.v = IF Bit(flags, 6) THEN set ELSE @,
              !.n = IF Bit(flags, 7) THEN set ELSE @]

exec_REP_SEP(s, instruction, set) ==
    ReadThen(s, read_byte(s, instruction.data_addr), LAMBDA flags :
        Normal([s EXCEPT !.cpu.P = rep_sep_flags(@, flags, set)]))

exec_ORA(s, instruction) ==
    ReadThen(s, read_word(s, instruction.data_addr), LAMBDA data :
        Normal(SetReg(s, "A", BitOr(s.cpu.A, data))))

\* LDA, LDX, LDY: the 8-bit arm clears the low byte before it reads
exec_load(s, instruction, reg, narrow) ==
    IF narrow
    THEN ReadThen(SetLow(s, reg, 0), read_byte(SetLow(s, reg, 0), instruction.data_addr),
            LAMBDA temp : Normal(SetNZ(SetLow(s, reg, temp), Bit(temp, 7), temp = 0)))
    ELSE ReadThen(s, read_word(s, instruction.data_addr), LAMBDA data :
            Normal(SetNZ(SetReg(s, reg, data), Bit(data, 15), data = 0)))

\* PHA, PHX, PHY
exec_push(s, narrow, value) ==
    IF narrow THEN Then(push_byte(s, Lo(value)), Normal)
    ELSE Then(push_word(s, value), Normal)

\* PLA, PLX, PLY
exec_pull(s, reg, narrow) ==
    IF narrow
    THEN ThenVal(pull_byte(s), LAMBDA t, temp :
            Normal(SetLow(SetNZ(t, Bit(temp, 7), temp = 0), reg, temp)))
    ELSE ThenVal(pull_word(s), LAMBDA t, temp :
            Normal(SetReg(SetNZ(t, Bit(temp, 15), temp = 0), reg, temp)))

exec_PLP(s) ==
    ThenVal(pull_byte(s), LAMBDA t, p : Normal([t EXCEPT !.cpu = set_p(@, p)]))

exec_PLB(s) ==
    ThenVal(pull_byte(s), LAMBDA t, temp :
        Normal(SetReg(SetNZ(t, Bit(temp, 7), temp = 0), "DBR", temp)))

exec_PLD(s) ==
    ThenVal(pull_word(s), LAMBDA t, temp :
        Normal(SetReg(SetNZ(t, Bit(temp, 15), temp = 0), "D", temp)))

\* RTS that resumes at the pulled address itself
exec_RTS_pulled(s) ==
    ThenVal(pull_word(s), LAMBDA t, pc : DoneVal(SetReg(t, "PC", pc), "Return"))

exec_RTS(s) ==
    ThenVal(pull_word(s), LAMBDA t, pc :
        IF CheckedU16(pc + 1).st = "ok"
        THEN DoneVal(SetReg(t, "PC", CheckedU16(pc + 1).val), "Return")
        ELSE Crash(SetReg(t, "PC", pc), "overflow"))

exec_RTL(s) ==
    ThenVal(pull_byte(s), LAMBDA t, pc_l :
        ThenVal(pull_byte(t), LAMBDA u, pc_h :
            ThenVal(pull_byte(SetReg(u, "PC", Word(pc_h, pc_l))), LAMBDA w, k :
                Normal(SetReg(w, "K", k)))))

\* TAX, TAY, TSX, TXA, TYA: dst takes value at the width of narrow
exec_transfer(s, dst, narrow, value) ==
    IF narrow
    THEN Normal(SetNZ(SetLow(s, dst, Lo(value)), Bit(value, 7), Lo(value) = 0))
    ELSE Normal(SetNZ(SetReg(s, dst, value), Bit(value, 15), value = 0))

\* TRB (set = FALSE) and TSB (set = TRUE)
exec_TRB_TSB(s, instruction, set) ==
    IF s.cpu.P.m
    THEN ReadThen(s, read_byte(s, instruction.data_addr), LAMBDA val :
            LET result == IF set THEN BitOr(val, Lo(s.cpu.A))
                          ELSE BitAnd(val, BitXor(Lo(s.cpu.A), \hFF))
            IN  Then(write_byte(s, instruction.data_addr, result), LAMBDA t :
                    Normal([t EXCEPT !.cpu.P.z = result = 0])))
    ELSE ReadThen(s, read_word(s, instruction.data_addr), LAMBDA val :
            LET result == IF set THEN BitOr(val, s.cpu.A)
                          ELSE BitAnd(val, BitXor(s.cpu.A, \hFFFF))
            IN  Then(write_word(s, instruction.data_addr, result), LAMBDA t :
                    Normal([t EXCEPT !.cpu.P.z = result = 0])))

\* the arithmetic of SBC on operands of width bits
sbc_flags(s, a_val, data, width) ==
    LET carry == BoolBit(s.cpu.P.c)
        result == (a_val - data - (1 - carry)) % (2 ^ width)
    IN  [result |-> result,
         snes |-> [s EXCEPT !.cpu.P.z = result = 0,
                            !.cpu.P.n = Bit(result, width - 1),
                            !.cpu.P.c = a_val + carry >= data + 1,
                            !.cpu.P.v = Bit(BitXor(a_val, data), width - 1)
                                        /\ Bit(BitXor(a_val, result), width - 1)]]

exec_SBC(s, instruction) ==
    IF s.cpu.P.d THEN Crash(s, "unimplemented")
    ELSE IF s.cpu.P.m
    THEN ReadThen(s, read_byte(s, instruction.data_addr), LAMBDA data :
            LET r == sbc_flags(s, Lo(s.cpu.A), data, 8)
            IN  Normal(SetLow(r.snes, "A", r.result)))
    ELSE ReadThen(s, read_word(s, instruction.data_addr), LAMBDA data :
            LET r == sbc_flags(s, s.cpu.A, data, 16)
            IN  Normal(SetReg(r.snes, "A", r.result)))

exec_XBA(s) == Normal(SetReg(s, "A", Lo(s.cpu.A) * \h100 + Hi(s.cpu.A)))

\* XCE as a bare exchange of the carry and emulation flags
exec_XCE_exchange(s) ==
    Normal([s EXCEPT !.cpu.P.c = s.cpu.P.e, !.cpu.P.e = s.cpu.P.c])

exec_XCE(s) ==
    LET t == [s EXCEPT !.cpu.P.c = s.cpu.P.e, !.cpu.P.e = s.cpu.P.c]
    IN  IF t.cpu.P.e
        THEN Normal([t EXCEPT !.cpu.P.m = TRUE,
                              !.cpu.P.x = TRUE,
                              !.cpu.S = Lo(@) + \h100])
        ELSE Normal(t)

\* the match of execute_instruction on the mnemonic
native_arm(s, instruction) ==
    LET op == instruction.opcode
        cpu == s.cpu
    IN  CASE op = "JMP" -> exec_JMP(s, instruction)
          [] op = "JSL" -> exec_JSL(s, instruction)
          [] op = "JSR" -> exec_JSR(s, instruction)
          [] op = "RTI" -> exec_RTI(s)
          [] op = "ADC" -> exec_ADC(s, instruction)
          [] op = "AND" -> exec_AND(s, instruction)
          [] op = "ASL" -> exec_ASL(s, instruction)
          [] op = "BCC" -> exec_branch(s, instruction, ~cpu.P.c)
          [] op = "BEQ" -> exec_branch(s, instruction, cpu.P.z)
          [] op = "BRA" -> exec_branch(s, instruction, TRUE)
          [] op = "BIT" -> exec_BIT(s, instruction)
          [] op = "BPL" -> exec_branch(s, instruction, ~cpu.P.n)
          [] op = "BMI" -> exec_branch(s, instruction, cpu.P.n)
          [] op = "BNE" -> exec_branch(s, instruction, ~cpu.P.z)
          [] op = "BRK" -> exec_BRK(s, instruction)
          [] op = "CLC" -> Normal([s EXCEPT !.cpu.P.c = FALSE])
          [] op = "CLI" -> Normal([s EXCEPT !.cpu.P.i = FALSE])
          [] op = "SEC" -> Normal([s EXCEPT !.cpu.P.c = TRUE])
          [] op = "CMP" -> exec_compare(s, instruction, "A", cpu.P.m)
          [] op = "CPX" -> exec_compare(s, instruction, "X", cpu.P.x)
          [] op = "CPY" -> exec_compare(s, instruction, "Y", cpu.P.x)
          [] op = "DEC" -> exec_DEC_INC(s, instruction, -1)
          [] op = "DEX" -> step_register(s, "X", cpu.P.x, -1)
          [] op = "DEY" -> step_register(s, "Y", cpu.P.x, -1)
          [] op = "INC" -> exec_DEC_INC(s, instruction, 1)
          [] op = "INX" -> step_register(s, "X", cpu.P.x, 1)
          [] op = "INY" -> step_register(s, "Y", cpu.P.x, 1)
          [] op \in {"LSR", "ROR"} -> exec_LSR_ROR(s, instruction)
          [] op = "ROL" -> exec_ROL(s, instruction)
          [] op = "STA" -> exec_store(s, instruction, cpu.P.m, cpu.A)
          [] op = "STX" -> exec_store(s, instruction, cpu.P.x, cpu.X)
          [] op = "STY" -> exec_store(s, instruction, cpu.P.x, cpu.Y)
          [] op = "STZ" -> exec_store(s, instruction, cpu.P.m, 0)
          [] op = "REP" -> exec_REP_SEP(s, instruction, FALSE)
          [] op = "SEP" -> exec_REP_SEP(s, instruction, TRUE)
          [] op = "ORA" -> exec_ORA(s, instruction)
          [] op = "LDA" -> exec_load(s, instruction, "A", cpu.P.m)
          [] op = "LDX" -> exec_load(s, instruction, "X", cpu.P.x)
          [] op = "LDY" -> exec_load(s, instruction, "Y", cpu.P.x)
          [] op = "PHA" -> exec_push(s, cpu.P.m, cpu.A)
          [] op = "PHK" -> exec_push(s, TRUE, cpu.K)
          [] op = "PHB" -> exec_push(s, TRUE, cpu.DBR)
          [] op = "PHD" -> exec_push(s, FALSE, cpu.D)
          [] op = "PHP" -> exec_push(s, TRUE, p_byte(cpu))
          [] op = "PHX" -> exec_push(s, cpu.P.x, cpu.X)
          [] op = "PHY" -> exec_push(s, cpu.P.x, cpu.Y)
          [] op = "PLA" -> exec_pull(s, "A", cpu.P.m)
          [] op = "PLP" -> exec_PLP(s)
          [] op = "PLB" -> exec_PLB(s)
          [] op = "PLD" -> exec_PLD(s)
          [] op = "PLX" -> exec_pull(s, "X", cpu.P.x)
          [] op = "PLY" -> exec_pull(s, "Y", cpu.P.x)
          [] op = "RTS" -> exec_RTS(s)
          [] op = "RTL" -> exec_RTL(s)
          [] op = "TAX" -> exec_transfer(s, "X", cpu.P.x, cpu.A)
          [] op = "TAY" -> exec_transfer(s, "Y", cpu.P.x, cpu.A)
          [] op = "TSX" -> exec_transfer(s, "X", cpu.P.x, cpu.S)
          [] op = "TXS" -> exec_transfer(s, "S", FALSE, cpu.X)
          [] op = "TXA" -> exec_transfer(s, "A", cpu.P.m, cpu.X)
          [] op = "TYA" -> exec_transfer(s, "A", cpu.P.m, cpu.Y)
          [] op = "TCD" -> exec_transfer(s, "D", FALSE, cpu.A)
          [] op = "TDC" -> exec_transfer(s, "A", FALSE, cpu.D)
          [] op \in {"TRB", "TSB"} -> exec_TRB_TSB(s, instruction, op = "TSB")
          [] op = "SBC" -> exec_SBC(s, instruction)
          [] op = "XBA" -> exec_XBA(s)
          [] op = "XCE" -> exec_XCE(s)
          [] op = "NOP" -> Normal(s)
          [] OTHER -> Crash(s, "todo")

execute_instruction(s, instruction) ==
    IF s.cpu.P.e THEN execute_instruction_emu(s, instruction)
    ELSE ThenVal(native_arm(s, instruction), LAMBDA t, tag :
            IF tag = "Normal" THEN advance_pc(t, instruction) ELSE DoneVal(t, tag))

(***************************************************************************)
(* The machine (main.rs).  main builds the Console from CPU::new, a zeroed *)
(* work RAM, default registers and the cartridge, loads PC from the reset  *)
(* vector, and then steps: fetch at K:PC, decode, execute.  The debugger   *)
(* prompt can set X ("x"), set the flag byte ("p") and raise an NMI        *)
(* ("nmi") between steps.  An error or a panic ends the process.           *)
(***************************************************************************)
MMIORegisters_default ==
    [NMITIMEN |-> 0, WRIO |-> 0, WRMPYA |-> 0, WRMPYB |-> 0, WRDIVL |-> 0, WRDIVH |-> 0,
     WRDIVB |-> 0, HTIMEL |-> 0, HTIMEH |-> 0, VTIMEL |-> 0, VTIMEH |-> 0, MEMSEL |-> 0]

DMARegisters_default ==
    [MDMAEN |-> 0, HDMAEN |-> 0,
     DMAPn |-> [n \in 0..7 |-> 0], BBADn |-> [n \in 0..7 |-> 0],
     A1TnL |-> [n \in 0..7 |-> 0], A1TnH |-> [n \in 0..7 |-> 0],
     A1nB |-> [n \in 0..7 |-> 0], DASnL |-> [n \in 0..7 |-> 0],
     DASnH |-> [n \in 0..7 |-> 0], DASBn |-> [n \in 0..7 |-> 0],
     A2TnL |-> [n \in 0..7 |-> 0], A2TnH |-> [n \in 0..7 |-> 0],
     NLTRn |-> [n \in 0..7 |-> 0], UNUSEDn |-> [n \in 0..7 |-> 0]]

Console_new(cartridge) ==
    [cpu |-> [CPU_new EXCEPT !.PC = cartridge.vectors.reset],
     ram |-> <<>>,
     mmio |-> MMIORegisters_default,
     dma |-> DMARegisters_default,
     cartridge |-> cartridge]

\* one pass of the main loop: read_byte(PC)?, decode_instruction?, execute_instruction?
fetch(s) == read_byte(s, get_pc(s.cpu))

step(s) ==
    ReadThen(s, fetch(s), LAMBDA op :
        ReadThen(s, decode_instruction(s, op, get_pc(s.cpu)), LAMBDA instr :
            execute_instruction(s, instr)))

\* the commands of execute_command that change the console
command_x(s, v) == [s EXCEPT !.cpu.X = v]
command_p(s, p) == [s EXCEPT !.cpu = set_p(@, p)]

(***************************************************************************)
(* The cartridges explored: a 32 KiB LoROM image that holds a program at   *)
(* the reset vector and zeros elsewhere.  A program is a sequence of at    *)
(* most MaxProg instructions drawn from Insns.                             *)
(***************************************************************************)
MaxProg == 3
MaxSteps == 4
MaxCmds == 1

Insns ==
    {<<\hFB>>,                \* XCE
     <<\h48>>,                \* PHA
     <<\h68>>,                \* PLA
     <<\hE2, \h28>>,          \* SEP #$28  (M and D)
     <<\h69, \h01, \h00>>,    \* ADC #$0001
     <<\hA9, \h34, \h92>>,    \* LDA #$9234
     <<\h0E, \h00, \h80>>}    \* ASL $8000

RECURSIVE Flatten(_)
Flatten(seq) == IF seq = <<>> THEN <<>> ELSE Head(seq) \o Flatten(Tail(seq))

Programs == UNION {[1..n -> Insns] : n \in 0..MaxProg}

Vectors == [reset |-> \h8000, nmi |-> \h9000, brk |-> \hFFE6, brk_emu |-> \hFFFE]

ProgramCart(program) ==
    [map_mode |-> "LoROM", rom_size |-> \h8000, len |-> \h8000,
     data |-> Flatten(program), vectors |-> Vectors]

XValues == {\h01FF}
PValues == {\h00, \h38, \hC3}

NoOp == [kind |-> "init", opcode |-> "", st |-> "ok", err |-> "", tag |-> "", pre |-> <<>>]

Record(kind, opcode, r, pre) ==
    [kind |-> kind, opcode |-> opcode, st |-> r.st, err |-> r.err,
     tag |-> IF r.st = "ok" THEN r.val ELSE "", pre |-> pre]

Init ==
    /\ \E program \in Programs : snes = Console_new(ProgramCart(program))
    /\ overflow_checks \in BOOLEAN
    /\ halted = "no"
    /\ last = NoOp
    /\ prev = NoOp
    /\ steps = [step |-> 0, cmd |-> 0]

Finish(kind, opcode, r) ==
    /\ snes' = r.snes
    /\ halted' = IF r.st = "ok" THEN "no" ELSE r.st
    /\ last' = Record(kind, opcode, r, snes)
    /\ prev' = last
    /\ UNCHANGED overflow_checks

Step ==
    /\ halted = "no"
    /\ steps.step < MaxSteps
    /\ steps' = [steps EXCEPT !.step = @ + 1]
    /\ Finish("step", IF fetch(snes).st = "ok" THEN opcode_of(fetch(snes).val) ELSE "",
              step(snes))

Nmi ==
    /\ halted = "no"
    /\ steps.cmd < MaxCmds
    /\ steps' = [steps EXCEPT !.cmd = @ + 1]
    /\ Finish("nmi", "", execute_nmi(snes))

CmdX ==
    /\ halted = "no"
    /\ steps.cmd < MaxCmds
    /\ steps' = [steps EXCEPT !.cmd = @ + 1]
    /\ \E v \in XValues : Finish("x", "", Done(command_x(snes, v)))

CmdP ==
    /\ halted = "no"
    /\ steps.cmd < MaxCmds
    /\ steps' = [steps EXCEPT !.cmd = @ + 1]
    /\ \E p \in PValues : Finish("p", "", Done(command_p(snes, p)))

Next == Step \/ Nmi \/ CmdX \/ CmdP

Spec == Init /\ [][Next]_vars

(***************************************************************************)
(* Properties of the machine.                                              *)
(***************************************************************************)
IsStep(op, mnemonic) == op.kind = "step" /\ op.opcode = mnemonic
StepOk(op, mnemonic) == IsStep(op, mnemonic) /\ op.st = "ok"

\* C1: in every reachable state, starting with the one CPU::new builds,
\* E = 1 implies M = 1, X = 1 and the high byte of S is 0x01.
C1_EmulationInvariant ==
    snes.cpu.P.e => snes.cpu.P.m /\ snes.cpu.P.x /\ Hi(snes.cpu.S) = \h01

\* C2: whatever the opcode byte and the CPU state, a step ends with a result
\* tag or with an error returned to the caller; it never panics.
C2_StepNeverPanics == last.kind = "step" => last.st # "panic"

\* C3: a step that returns an error leaves the console (registers, flags,
\* stack pointer, work RAM, latches) exactly as it was before the step.
C3_StepAtomic == last.kind = "step" /\ last.st = "err" => snes = last.pre

\* the registers and flags XCE has no business with
SameBesidesMode(p, q) ==
    /\ p.A = q.A /\ p.X = q.X /\ p.Y = q.Y /\ p.D = q.D /\ p.DBR = q.DBR /\ p.K = q.K
    /\ p.P.e = q.P.e /\ p.P.c = q.P.c
    /\ p.P.n = q.P.n /\ p.P.v = q.P.v /\ p.P.d = q.P.d
    /\ p.P.i = q.P.i /\ p.P.z = q.P.z /\ p.P.b = q.P.b

XceTwice == StepOk(prev, "XCE") /\ StepOk(last, "XCE")

\* C6 as stated: two XCE in a row leave every register and flag but PC as
\* it was, M, X and S included.
C6_XceTwiceRestoresAll ==
    XceTwice =>
        /\ SameBesidesMode(prev.pre.cpu, snes.cpu)
        /\ snes.cpu.P.m = prev.pre.cpu.P.m
        /\ snes.cpu.P.x = prev.pre.cpu.P.x
        /\ snes.cpu.S = prev.pre.cpu.S

\* C6 amended: two XCE in a row restore E, C, A, X, Y, D, DBR, K and the
\* flags N, V, D, I, Z; M, X and S are as before when E = C held before the
\* pair, and otherwise (one of the two entered emulation mode from native
\* mode) M = 1, X = 1 and S is its old low byte under the high byte 0x01.
C6_XceTwice ==
    XceTwice =>
        /\ SameBesidesMode(prev.pre.cpu, snes.cpu)
        /\ IF prev.pre.cpu.P.e = prev.pre.cpu.P.c
           THEN /\ snes.cpu.P.m = prev.pre.cpu.P.m
                /\ snes.cpu.P.x = prev.pre.cpu.P.x
                /\ snes.cpu.S = prev.pre.cpu.S
           ELSE /\ snes.cpu.P.m
                /\ snes.cpu.P.x
                /\ snes.cpu.S = Lo(prev.pre.cpu.S) + \h100

\* an XCE pair that went through emulation-mode entry with a 16-bit
\* accumulator and a stack outside page 1
C6_Witness ==
    /\ XceTwice
    /\ prev.pre.cpu.P.e # prev.pre.cpu.P.c
    /\ ~prev.pre.cpu.P.m
    /\ Hi(prev.pre.cpu.S) # \h01

\* the bytes PHA writes lie in work RAM
StackInWram(cpu) ==
    \/ cpu.P.e
    \/ cpu.P.m /\ cpu.S < \h2000
    \/ ~cpu.P.m /\ cpu.S >= 1 /\ cpu.S < \h2000

\* C7: from any CPU state whose stack bytes lie in work RAM, in either
\* accumulator width and in native or emulation mode, PHA succeeds, and a
\* PLA right after it succeeds and leaves A (at the current width) and S as
\* they were before the PHA.
C7_PhaPlaRoundTrip ==
    /\ IsStep(last, "PHA") /\ StackInWram(last.pre.cpu) => last.st = "ok"
    /\ StepOk(prev, "PHA") /\ IsStep(last, "PLA") /\ StackInWram(prev.pre.cpu) =>
        /\ last.st = "ok"
        /\ snes.cpu.S = prev.pre.cpu.S
        /\ IF prev.pre.cpu.P.m THEN Lo(snes.cpu.A) = Lo(prev.pre.cpu.A)
           ELSE snes.cpu.A = prev.pre.cpu.A

(***************************************************************************)
(* The decoder on its own: an opcode byte and the two width flags are      *)
(* drawn, and Decode applies opcode_of, decode_addressing_mode and length. *)
(***************************************************************************)
Bytes == 0..255

DecodeResult(byte, m, x) ==
    LET mode == decode_addressing_mode(byte)
    IN  [kind |-> "decode", byte |-> byte, m |-> m, x |-> x,
         opcode |-> opcode_of(byte),
         st |-> mode.st,
         mode |-> IF mode.st = "ok" THEN mode.val ELSE "",
         length |-> IF mode.st = "ok" THEN length(opcode_of(byte), mode.val, m, x)
                    ELSE Err("UnknownOpcode")]

InitDecode ==
    /\ snes = Console_new(ProgramCart(<<>>))
    /\ overflow_checks = FALSE
    /\ halted = "no"
    /\ \E byte \in Bytes, m \in BOOLEAN, x \in BOOLEAN :
          last = [kind |-> "input", byte |-> byte, m |-> m, x |-> x]
    /\ prev = NoOp
    /\ steps = [step |-> 0, cmd |-> 0]

Decode ==
    /\ last.kind = "input"
    /\ last' = DecodeResult(last.byte, last.m, last.x)
    /\ UNCHANGED <<snes, overflow_checks, halted, prev, steps>>

NextDecode == Decode

SpecDecode == InitDecode /\ [][NextDecode]_vars

\* C4: decode_addressing_mode returns a mode, never the unknown-opcode
\* error, for each of the 256 opcode bytes.
C4_EveryOpcodeDecodes == last.kind = "decode" => last.st = "ok" /\ last.mode # ""

\* an opcode whose bit fields alone have no mode (cc = 00, bbb = 010): PHP
C4_Witness == last.kind = "decode" /\ last.byte = \h08 /\ last.mode = "Implied"

\* the length C5 states for the Immediate form of a mnemonic
ImmediateLengthStated(opcode, m, x) ==
    CASE opcode \in {"REP", "SEP", "WDM", "COP"} -> 2
      [] opcode \in {"PEA", "PER"} -> 3
      [] opcode \in {"LDX", "LDY", "CPX", "CPY"} -> 3 - BoolBit(x)
      [] OTHER -> 3 - BoolBit(m)

\* C5: for every opcode decoded as Immediate and every (m, x), length is
\* 3 - m for the accumulator operations, 3 - x for the index operations,
\* 2 for REP, SEP, WDM and COP, and 3 for PEA and PER.
C5_ImmediateLength ==
    last.kind = "decode" /\ last.mode = "Immediate" =>
        /\ last.length.st = "ok"
        /\ last.length.val = ImmediateLengthStated(last.opcode, last.m, last.x)

(***************************************************************************)
(* The memory bus on its own: the console as main builds it, driven by     *)
(* calls of write_byte, write_word, read_byte and read_word.               *)
(***************************************************************************)
MaxWrites == 2

MemAddrs ==
    { \h000000, \h001FFF, \h7E0000, \h7E0001, \h7FFFFF, \hBF0001,
      \h004200, \h004201, \h00420B, \h004210, \h80421F,
      \h004300, \h004302, \h00430C, \h00437F, \h804355,
      \h002100, \h007FFF,
      \h008000, \h00FFFF, \h400000, \hFFFFFF }

MemBytes == {\h00, \h5A}
MemWords == {\hBEEF}

MemRecord(kind, addr, data, r, pre) ==
    [kind |-> kind, addr |-> addr, data |-> data, st |-> r.st, err |-> r.err,
     val |-> r.val, pre |-> pre]

InitMem ==
    /\ snes = Console_new(ProgramCart(<<>>))
    /\ overflow_checks = FALSE
    /\ halted = "no"
    /\ last = NoOp
    /\ prev = NoOp
    /\ steps = [step |-> 0, cmd |-> 0]

FinishWrite(kind, addr, data, r) ==
    /\ steps.cmd < MaxWrites
    /\ steps' = [steps EXCEPT !.cmd = @ + 1]
    /\ snes' = r.snes
    /\ last' = MemRecord(kind, addr, data, r, snes)
    /\ UNCHANGED <<overflow_checks, halted, prev>>

FinishRead(kind, addr, r) ==
    /\ last' = MemRecord(kind, addr, 0, r, snes)
    /\ UNCHANGED <<snes, overflow_checks, halted, prev, steps>>

WriteByte == \E addr \in MemAddrs, data \in MemBytes :
    FinishWrite("write_byte", addr, data, write_byte(snes, addr, data))

WriteWord == \E addr \in MemAddrs, data \in MemWords :
    FinishWrite("write_word", addr, data, write_word(snes, addr, data))

ReadByte == \E addr \in MemAddrs : FinishRead("read_byte", addr, read_byte(snes, addr))

ReadWord == \E addr \in MemAddrs : FinishRead("read_word", addr, read_word(snes, addr))

PeekByte == \E addr \in MemAddrs : FinishRead("peek_byte", addr, peek_byte(snes, addr))

PeekWord == \E addr \in MemAddrs : FinishRead("peek_word", addr, peek_word(snes, addr))

NextMem == WriteByte \/ WriteWord \/ ReadByte \/ ReadWord \/ PeekByte \/ PeekWord

SpecMem == InitMem /\ [][NextMem]_vars

\* C8: for every address routed to work RAM and every value, write_byte
\* followed by read_byte of the same address returns the value written, and
\* write_word followed by read_word returns the word written.
C8_WramRoundTrip ==
    /\ last.kind = "write_byte" /\ IsRam(last.addr) =>
          last.st = "ok" /\ read_byte(snes, last.addr) = Ok(last.data)
    /\ last.kind = "write_word" /\ IsRam(last.addr) =>
          last.st = "ok" /\ read_word(snes, last.addr) = Ok(last.data)

\* a word written at the last byte of bank 0x7F over a byte written before it
C8_Witness ==
    /\ last.kind = "write_word" /\ last.addr = \h7FFFFF /\ last.data = \hBEEF
    /\ last.pre.ram # <<>>
    /\ read_word(snes, last.addr) = Ok(\hBEEF)

IsCpuLatch(addr) == IsMmio(addr) /\ addr_word_of(addr) <= \h420D
IsLatch(addr) == IsCpuLatch(addr) \/ IsDma(addr)

\* C9 as stated: for every address of a CPU register latch (0x4200-0x420D)
\* or a DMA channel register (0x4300-0x437F), write_byte followed by
\* read_byte succeeds and returns the value written.
C9_LatchRoundTrip ==
    last.kind = "write_byte" /\ IsLatch(last.addr) =>
        last.st = "ok" /\ read_byte(snes, last.addr) = Ok(last.data)

\* the latch a register address names (registers.rs), WRIO excepted
LatchAt(s, addr) ==
    LET n == dma_no_of(addr)
        w == addr_word_of(addr)
    IN  IF IsDma(addr)
        THEN CASE dma_reg_of(addr) = 0 -> s.dma.DMAPn[n]
               [] dma_reg_of(addr) = 1 -> s.dma.BBADn[n]
               [] dma_reg_of(addr) = 2 -> s.dma.A1TnL[n]
               [] dma_reg_of(addr) = 3 -> s.dma.A1TnH[n]
               [] dma_reg_of(addr) = 4 -> s.dma.A1nB[n]
               [] dma_reg_of(addr) = 5 -> s.dma.DASnL[n]
               [] dma_reg_of(addr) = 6 -> s.dma.DASnH[n]
               [] dma_reg_of(addr) = 7 -> s.dma.DASBn[n]
               [] dma_reg_of(addr) = 8 -> s.dma.A2TnL[n]
               [] dma_reg_of(addr) = 9 -> s.dma.A2TnH[n]
               [] dma_reg_of(addr) = 10 -> s.dma.NLTRn[n]
               [] OTHER -> s.dma.UNUSEDn[n]
        ELSE CASE w = \h4200 -> s.mmio.NMITIMEN
               [] w = \h4201 -> s.mmio.WRIO
               [] w = \h4202 -> s.mmio.WRMPYA
               [] w = \h4203 -> s.mmio.WRMPYB
               [] w = \h4204 -> s.mmio.WRDIVL
               [] w = \h4205 -> s.mmio.WRDIVH
               [] w = \h4206 -> s.mmio.WRDIVB
               [] w = \h4207 -> s.mmio.HTIMEL
               [] w = \h4208 -> s.mmio.HTIMEH
               [] w = \h4209 -> s.mmio.VTIMEL
               [] w = \h420A -> s.mmio.VTIMEH
               [] w = \h420B -> s.dma.MDMAEN
               [] w = \h420C -> s.dma.HDMAEN
               [] OTHER -> s.mmio.MEMSEL

\* C9, amended: the latches are write-only.  write_byte to 0x4200-0x420D or
\* to registers 0x0-0xB and 0xF of a DMA channel succeeds and records the
\* value in the latch the address names (WRIO at 0x4201 is accepted and not
\* recorded); registers 0xC-0xE of a DMA channel reject the write and leave
\* the console unchanged; read_byte of any of these addresses afterwards
\* returns an error.
C9_LatchWriteOnly ==
    last.kind = "write_byte" /\ IsLatch(last.addr) =>
        /\ read_byte(snes, last.addr).st = "err"
        /\ IF IsDma(last.addr) /\ dma_reg_of(last.addr) \in {\h0C, \h0D, \h0E}
           THEN last.st = "err" /\ snes = last.pre
           ELSE /\ last.st = "ok"
                /\ IF addr_word_of(last.addr) = \h4201
                   THEN snes = last.pre
                   ELSE LatchAt(snes, last.addr) = last.data

C9_Witness ==
    /\ last.kind = "write_byte" /\ last.addr = \h00420B /\ last.data = \h5A
    /\ last.st = "ok" /\ snes.dma.MDMAEN = \h5A
    /\ read_byte(snes, last.addr).st = "err"

\* C10: for every address routed to ROM, write_byte and write_word return
\* an error and leave ROM, work RAM, the latches and the CPU unchanged.
C10_RomWriteRejected ==
    last.kind \in {"write_byte", "write_word"} /\ IsRom(last.addr) =>
        last.st = "err" /\ snes = last.pre

C10_Witness ==
    /\ last.kind = "write_byte" /\ last.addr = \h008000 /\ last.data = \h5A
    /\ last.st = "err" /\ snes = last.pre

NextAddr(addr) == (addr + 1) % U24

\* C11: read_word(a) succeeds exactly when read_byte(a) and
\* read_byte((a + 1) mod 2^24) both succeed, and then it is the second byte
\* shifted left by 8, or-ed with the first; region ends and the readable
\* MMIO registers included.
C11_ReadWordIsTwoBytes ==
    last.kind = "read_word" =>
        LET lo == read_byte(snes, last.addr)
            hi == read_byte(snes, NextAddr(last.addr))
        IN  /\ last.st = "ok" <=> (lo.st = "ok" /\ hi.st = "ok")
            /\ last.st = "ok" => last.val = Word(hi.val, lo.val)

(***************************************************************************)
(* The ROM readers on their own: a cartridge of one of the three map modes *)
(* is loaded, and the bus is read and peeked at addresses routed to ROM.   *)
(* rom_size is a power of two of KiB, as load_rom computes it; the file    *)
(* may be shorter than the header declares.                                *)
(***************************************************************************)
RomOffsets ==
    { \h000000, \h000001, \h007FFF, \h008000, \h00FFFF, \h010000, \h017FFF,
      \h01FFFF, \h3FFFFF, \h400000, \h408000, \h40FFFF, \h410000, \h7FFFFF }

RomByteAt(i) == ((i \div \h8000) * 37 + (i % \h100) * 3 + 1) % U8

RomCart(map_mode, rom_size, len) ==
    [map_mode |-> map_mode, rom_size |-> rom_size, len |-> len,
     data |-> [k \in {i + 1 : i \in {j \in RomOffsets : j < len}} |-> RomByteAt(k - 1)],
     vectors |-> Vectors]

RomCarts ==
    { RomCart("LoROM", \h8000, \h8000),
      RomCart("LoROM", \h20000, \h20000),
      RomCart("LoROM", \h20000, \h10000),
      RomCart("HiROM", \h10000, \h10000),
      RomCart("HiROM", \h400000, \h400000),
      RomCart("HiROM", \h20000, \h10000),
      RomCart("ExHiROM", \h800000, \h800000),
      RomCart("ExHiROM", \h800000, \h410000) }

RomAddrs ==
    { \h008000, \h00FFFF, \h018000, \h01FFFF, \h03FFFF, \h3F8000, \h400000,
      \h408000, \h40FFFF, \h410000, \h7DFFFF, \h808000, \h80FFFF, \hBFFFFF,
      \hC00000, \hC08000, \hC0FFFF, \hC10000, \hFFFFFF }

InitRom ==
    /\ \E cart \in RomCarts : snes = Console_new(cart)
    /\ overflow_checks = FALSE
    /\ halted = "no"
    /\ last = NoOp
    /\ prev = NoOp
    /\ steps = [step |-> 0, cmd |-> 0]

RomReadByte == \E addr \in RomAddrs : FinishRead("read_byte", addr, read_byte(snes, addr))

RomReadWord == \E addr \in RomAddrs : FinishRead("read_word", addr, read_word(snes, addr))

RomPeekByte == \E addr \in RomAddrs : FinishRead("peek_byte", addr, peek_byte(snes, addr))

RomPeekWord == \E addr \in RomAddrs : FinishRead("peek_word", addr, peek_word(snes, addr))

NextRom == RomReadByte \/ RomReadWord \/ RomPeekByte \/ RomPeekWord

SpecRom == InitRom /\ [][NextRom]_vars

\* the ROM offset C12 states for an address, by map mode
RomOffsetStated(map_mode, addr) ==
    CASE map_mode = "LoROM" ->
            (bank_of(addr) % \h80) * \h8000 + (addr_word_of(addr) - \h8000)
      [] map_mode = "HiROM" -> addr % \h400000
      [] OTHER -> (addr % \h400000) + (IF addr >= \h800000 THEN 0 ELSE \h400000)

\* C12: for every address routed to ROM, read_byte returns the ROM byte at
\* offset (bank & 0x7F) * 0x8000 + (off16 - 0x8000) in LoROM mode (off16 >=
\* 0x8000), at A & 0x3FFFFF in HiROM mode, and at (A & 0x3FFFFF) +
\* (((A & 0x800000) xor 0x800000) >> 1) in ExHiROM mode, whenever that offset
\* lies within the ROM; outside it no byte is returned.
C12_RomByteMapping ==
    LET cart == snes.cartridge
        off == RomOffsetStated(cart.map_mode, last.addr)
        stated == /\ last.kind = "read_byte"
                  /\ IsRom(last.addr)
                  /\ (cart.map_mode = "LoROM" => addr_word_of(last.addr) >= \h8000)
    IN  stated =>
            IF off < cart.rom_size /\ off < cart.len
            THEN last.st = "ok" /\ last.val = RomGet(cart, off)
            ELSE last.st # "ok"

\* an ExHiROM read below bank 0x80, served from the upper half of the image
C12_Witness ==
    /\ last.kind = "read_byte" /\ last.addr = \h408000
    /\ snes.cartridge.map_mode = "ExHiROM"
    /\ last.st = "ok" /\ last.val = RomByteAt(\h408000) /\ last.val # 0

\* C13: a byte or word read routed to ROM whose computed offset (for a
\* word, the offset of either of its bytes) is at or past rom_size returns
\* an error; no ROM read crashes on, or returns data from, an offset at or
\* past the end of the ROM image.
C13_RomReadInBounds ==
    LET cart == snes.cartridge
        off == rom_addr_of(cart, last.addr)
        far == IF last.kind \in {"read_word", "peek_word"} THEN off + 1 ELSE off
    IN  last.kind \in {"read_byte", "read_word", "peek_byte", "peek_word"}
        /\ IsRom(last.addr) =>
            /\ last.st # "panic"
            /\ far >= cart.rom_size => last.st = "err"
            /\ far >= cart.len => last.st # "ok"

\* C14: for every bank b in 0x00-0x3F or 0x80-0xBF and every offset o
\* below 0x2000, b:o is the same work RAM cell as 0x7E:o: a byte written
\* through one address is read back through the other.
C14_LowRamMirror ==
    LET b == bank_of(last.addr)
        o == addr_word_of(last.addr)
    IN  last.kind = "write_byte" /\ o < \h2000 =>
            /\ SystemBank(b) =>
                  last.st = "ok" /\ read_byte(snes, \h7E0000 + o) = Ok(last.data)
            /\ b = \h7E =>
                  \A a \in MemAddrs :
                      SystemBank(bank_of(a)) /\ addr_word_of(a) = o =>
                          last.st = "ok" /\ read_byte(snes, a) = Ok(last.data)

(***************************************************************************)
(* The routing of the bus on its own: the arm of the match that each       *)
(* primitive takes for an address, and for the same offset 0x80 banks up.  *)
(***************************************************************************)
read_target(addr) ==
    CASE IsMmio(addr) -> "MMIO"
      [] IsRom(addr) -> "ROM"
      [] IsRam(addr) -> "WRAM"
      [] OTHER -> "invalid"

write_byte_target(addr) ==
    CASE IsMmio(addr) -> "MMIO"
      [] IsDma(addr) -> "DMA"
      [] IsRom(addr) -> "ROM"
      [] IsRam(addr) -> "WRAM"
      [] IsRegisterWindow(addr) -> "PPU"
      [] OTHER -> "invalid"

write_word_target(addr) ==
    CASE IsMmio(addr) -> "MMIO"
      [] IsDma(addr) -> "DMA"
      [] IsRom(addr) -> "ROM"
      [] IsRam(addr) -> "WRAM"
      [] OTHER -> "invalid"

Targets(addr) ==
    [read |-> read_target(addr), write_byte |-> write_byte_target(addr),
     write_word |-> write_word_target(addr)]

RouteOffsets ==
    { \h0000, \h1FFF, \h2000, \h2100, \h41FF, \h4200, \h421F, \h4220, \h42FF,
      \h4300, \h437F, \h4380, \h7FFF, \h8000, \hFFFF }

InitRoute ==
    /\ snes = Console_new(ProgramCart(<<>>))
    /\ overflow_checks = FALSE
    /\ halted = "no"
    /\ \E bank \in 0..127, off \in RouteOffsets :
          last = [kind |-> "input", addr |-> bank * U16 + off]
    /\ prev = NoOp
    /\ steps = [step |-> 0, cmd |-> 0]

Route ==
    /\ last.kind = "input"
    /\ last' = [kind |-> "route", addr |-> last.addr,
                low |-> Targets(last.addr), high |-> Targets(last.addr + \h800000)]
    /\ UNCHANGED <<snes, overflow_checks, halted, prev, steps>>

NextRoute == Route

SpecRoute == InitRoute /\ [][NextRoute]_vars

\* C15 as stated: for every bank b below 0x80 and every offset o, the read
\* and write primitives route (b + 0x80):o to the same kind of target as b:o.
C15_BankMirror == last.kind = "route" => last.high = last.low

\* C15, amended: the routing of (b + 0x80):o equals that of b:o for every
\* bank b below 0x7E; banks 0x7E and 0x7F are work RAM at every offset,
\* while banks 0xFE and 0xFF are ROM at every offset.
C15_BankMirrorBelow7E ==
    last.kind = "route" =>
        IF bank_of(last.addr) < \h7E THEN last.high = last.low
        ELSE /\ last.low = [read |-> "WRAM", write_byte |-> "WRAM", write_word |-> "WRAM"]
             /\ last.high = [read |-> "ROM", write_byte |-> "ROM", write_word |-> "ROM"]

C15_Witness ==
    /\ last.kind = "route" /\ last.addr = \h3F4300
    /\ last.low.write_byte = "DMA" /\ last.high.write_byte = "DMA"
    /\ last.low.read = "invalid"

\* C16: peek_byte and peek_word change no machine state, and wherever
\* read_byte (read_word) succeeds, work RAM, ROM and the readable MMIO
\* registers included, peek_byte (peek_word) succeeds with the same value.
C16_PeekMatchesRead ==
    /\ last.kind \in {"peek_byte", "peek_word"} => snes = last.pre
    /\ last.kind = "peek_byte" /\ read_byte(snes, last.addr).st = "ok" =>
          last.st = "ok" /\ last.val = read_byte(snes, last.addr).val
    /\ last.kind = "peek_word" /\ read_word(snes, last.addr).st = "ok" =>
          last.st = "ok" /\ last.val = read_word(snes, last.addr).val

\* one address for each latch of the CPU register and DMA register banks
LatchAddrs ==
    (\h4200 .. \h420D) \cup
    {\h4300 + n * \h10 + r : n \in 0..7, r \in (0..11) \cup {15}}

\* offsets 0xB and 0xF of a channel are the one latch UNUSEDn
LatchId(addr) ==
    IF IsDma(addr)
    THEN <<"dma", dma_no_of(addr), IF dma_reg_of(addr) = 15 THEN 11 ELSE dma_reg_of(addr)>>
    ELSE <<"mmio", addr_word_of(addr), 0>>

OnlyLatchesChanged(ids) ==
    /\ \A a \in LatchAddrs : LatchId(a) \notin ids => LatchAt(snes, a) = LatchAt(last.pre, a)
    /\ snes.ram = last.pre.ram
    /\ snes.cpu = last.pre.cpu
    /\ snes.cartridge = last.pre.cartridge

\* C17: a successful write to an MMIO or DMA latch is recorded verbatim and
\* changes nothing else: write_byte sets exactly the addressed latch to the
\* value written, write_word at DMA register offsets 2, 5 and 8 sets the _L
\* latch to the low byte and the _H latch to the high byte of that channel,
\* and every other latch, channel, the work RAM and the CPU are unchanged.
C17_LatchWriteVerbatim ==
    /\ last.kind = "write_byte" /\ IsLatch(last.addr) /\ last.st = "ok" =>
          /\ LatchAt(snes, last.addr) = last.data
          /\ OnlyLatchesChanged({LatchId(last.addr)})
    /\ last.kind = "write_word" /\ IsDma(last.addr) /\ dma_reg_of(last.addr) \in {2, 5, 8} =>
          /\ last.st = "ok"
          /\ LatchAt(snes, last.addr) = Lo(last.data)
          /\ LatchAt(snes, last.addr + 1) = Hi(last.data)
          /\ OnlyLatchesChanged({LatchId(last.addr), LatchId(last.addr + 1)})

\* C18: in banks 0x00-0x3F and 0x80-0xBF, at offsets 0x2000-0x7FFF outside
\* the MMIO range 0x4200-0x421F and the DMA range 0x4300-0x437F, a byte
\* write and a word write both succeed and leave all machine state unchanged.
C18_RegisterWindowWrites ==
    /\ last.kind \in {"write_byte", "write_word"}
    /\ IsRegisterWindow(last.addr)
    /\ ~IsMmio(last.addr)
    /\ ~IsDma(last.addr)
    => last.st = "ok" /\ snes = last.pre

(***************************************************************************)
(* The disassembler (debugger.rs).  debug_simulation walks the code from   *)
(* PC on a clone of the console: it decodes each instruction, steps over   *)
(* branches, jumps, calls and returns, and executes everything else.  Its  *)
(* result is a DisassemblerContext ("Context"), a DisassemblyError that    *)
(* carries the lines and the simulated console, the bare error that the ?  *)
(* operator converts (DisassemblerError::Other), or a panic.  An Option is *)
(* the empty sequence or a sequence of one element.                        *)
(***************************************************************************)
InstructionWrapper(s, instr, branchto, data) ==
    [location |-> get_pc(s.cpu),
     status |-> [x |-> s.cpu.P.x, m |-> s.cpu.P.m, e |-> s.cpu.P.e],
     branchfrom |-> <<>>,
     branchto |-> branchto,
     data |-> data,
     instruction |-> instr]

\* the walk: "run" while the loop goes on, then a DisassemblerContext in the
\* making ("ok"), DisassemblerError::DisassemblyError or ::Other ("err"), or a panic
SimResult(st, kind, err, cycle, instructions, branchinstructions, status) ==
    [st |-> st, kind |-> kind, err |-> err, cycle |-> cycle,
     instructions |-> instructions, branchinstructions |-> branchinstructions,
     snes |-> status]

\* a walk that steps over every instruction and executes none
is_control_flow_always(opcode) == TRUE

is_control_flow(opcode) ==
    is_branch(opcode) \/ is_jump(opcode) \/ is_return(opcode) \/ is_subroutine(opcode)

\* snes_sim.cpu.PC += instr.length(snes.cpu.P.m, snes.cpu.P.x): the flags are
\* those of the console the walk started from
step_over(orig, s, instr) ==
    LET len == length(instr.opcode, instr.mode, orig.cpu.P.m, orig.cpu.P.x)
        pc == CheckedU16(s.cpu.PC + len.val)
    IN  IF len.st # "ok" THEN Crash(s, len.err)
        ELSE IF pc.st # "ok" THEN Crash(s, pc.err)
        ELSE Done([s EXCEPT !.cpu.PC = pc.val])

\* F applied to the value of v, with v evaluated once
Bind(v, F(_)) == CHOOSE r \in {F(x) : x \in {v}} : TRUE

\* one pass of the body of the loop
debug_cycle(orig, sim, start, maxlines) ==
    LET pc == get_pc(sim.snes.cpu)
        Other(r) == SimResult(r.st, IF r.st = "err" THEN "Other" ELSE "", r.err,
                              sim.cycle, <<>>, <<>>, <<>>)
        branchto(instr) == IF is_branch(instr.opcode) /\ instr.data_addr > start
                           THEN <<instr.data_addr>> ELSE <<>>
        instructions(instr, data) ==
            Append(sim.instructions,
                   InstructionWrapper(sim.snes, instr, branchto(instr), data))
        branchinstructions(instr) ==
            IF branchto(instr) # <<>> THEN Append(sim.branchinstructions, sim.cycle)
            ELSE sim.branchinstructions
        ends(instr) ==
            \/ instr.opcode = "BRK"
            \/ is_return(instr.opcode)
            \/ is_subroutine(instr.opcode)
            \/ instr.opcode = "BRA"
    IN  Bind(read_byte(sim.snes, pc), LAMBDA op :
          IF op.st # "ok" THEN Other(op)
          ELSE Bind(decode_instruction(sim.snes, op.val, pc), LAMBDA dec :
            IF dec.st # "ok" THEN Other(dec)
            ELSE Bind(IF dec.val.mode = "Immediate"
                      THEN read_word(sim.snes, dec.val.data_addr) ELSE Ok(0), LAMBDA data :
              IF data.st # "ok" THEN Other(data)
              ELSE Bind(IF is_control_flow(dec.val.opcode)
                        THEN step_over(orig, sim.snes, dec.val)
                        ELSE execute_instruction(sim.snes, dec.val), LAMBDA moved :
                IF moved.st = "panic"
                THEN SimResult("panic", "", moved.err, sim.cycle, <<>>, <<>>, <<>>)
                ELSE IF moved.st = "err"
                THEN SimResult("err", "DisassemblyError", moved.err, sim.cycle,
                               instructions(dec.val, data.val), <<>>, moved.snes)
                ELSE SimResult(IF sim.cycle > maxlines \/ ends(dec.val) THEN "ok" ELSE "run",
                               IF sim.cycle > maxlines \/ ends(dec.val) THEN "Context" ELSE "",
                               "",
                               IF sim.cycle > maxlines THEN sim.cycle ELSE sim.cycle + 1,
                               instructions(dec.val, data.val),
                               branchinstructions(dec.val), moved.snes)))))

\* the loop: it ends by the pass in which cycle > maxlines at the latest
debug_loop(orig, start, maxlines) ==
    LET walk[n \in 0..(maxlines + 2)] ==
            IF n = 0 THEN SimResult("run", "", "", 0, <<>>, <<>>, orig)
            ELSE Bind(walk[n - 1], LAMBDA sim :
                    IF sim.st = "run" THEN debug_cycle(orig, sim, start, maxlines)
                    ELSE sim)
    IN  walk[maxlines + 2]

\* knowninstructions[loc]: the cycle last inserted for a location, as an Option
known_at(instructions, loc) ==
    LET at == {i \in 1..Len(instructions) : instructions[i].location = loc}
    IN  IF at = {} THEN <<>> ELSE <<CHOOSE i \in at : \A j \in at : j <= i>>

\* the loop 'calcbranch: pass handles one entry of branchinstructions
calcbranch(lines, branchinstructions) ==
    LET pass(instructions, instr) ==
            LET currbranchdest == instructions[instr + 1].branchto[1]
                currbranchloc == instructions[instr + 1].location
                target == known_at(instructions, currbranchdest)
            IN  IF currbranchdest > instructions[Len(instructions)].location
                THEN [instructions EXCEPT ![instr + 1].branchto = <<>>]
                ELSE IF target # <<>>
                THEN [instructions EXCEPT
                         ![target[1]].branchfrom = Append(@, currbranchloc)]
                ELSE instructions
        resolved[k \in 0..Len(branchinstructions)] ==
            IF k = 0 THEN lines
            ELSE Bind(resolved[k - 1], LAMBDA instructions :
                    pass(instructions, branchinstructions[k]))
    IN  resolved[Len(branchinstructions)]

debug_simulation(s, maxlines) ==
    LET start == get_pc(s.cpu)
    IN  Bind(debug_loop(s, start, maxlines), LAMBDA walk :
          IF walk.st # "ok"
          THEN [st |-> walk.st, kind |-> walk.kind, err |-> walk.err,
                lines |-> walk.instructions, branchtable |-> <<>>,
                startloc |-> start, endloc |-> 0, status |-> walk.snes]
          ELSE [st |-> "ok", kind |-> "Context", err |-> "",
                lines |-> calcbranch(walk.instructions, walk.branchinstructions),
                branchtable |-> walk.branchinstructions,
                startloc |-> start, endloc |-> get_pc(walk.snes.cpu), status |-> <<>>])

\* loop_to_target: flags is the sequence of the flag lists of the lines; the
\* walk from the branch at index start goes on until a line at target, and an
\* index that leaves the lines is a panic (of the subtraction when overflow
\* is checked, of the indexing otherwise)
loop_to_target(lines, flags, start, target) ==
    LET up == lines[start + 1].location > target
        first == IF up THEN start - 1 ELSE start + 1
        Flag(kind, i) == [kind |-> kind, location |-> lines[i + 1].location]
        begun == [flags EXCEPT ![start + 1] =
                     Append(@, Flag(IF up THEN "BranchEnd" ELSE "BranchStart", start))]
        pass(at) ==
            LET i == at.i
            IN  IF i < 0
                THEN [st |-> "panic",
                      err |-> IF overflow_checks THEN "overflow" ELSE "index out of bounds",
                      i |-> i, flags |-> at.flags]
                ELSE IF i >= Len(lines)
                THEN [st |-> "panic", err |-> "index out of bounds", i |-> i, flags |-> at.flags]
                ELSE IF lines[i + 1].location = target
                THEN [st |-> "ok", err |-> "", i |-> i,
                      flags |-> [at.flags EXCEPT ![i + 1] =
                                    Append(@, Flag(IF up THEN "BranchStart" ELSE "BranchEnd", i))]]
                ELSE [st |-> "run", err |-> "", i |-> IF up THEN i - 1 ELSE i + 1,
                      flags |-> [at.flags EXCEPT ![i + 1] = Append(@, Flag("BranchCont", i))]]
        walk[n \in 0..(Len(lines) + 1)] ==
            IF n = 0 THEN [st |-> "run", err |-> "", i |-> first, flags |-> begun]
            ELSE Bind(walk[n - 1], LAMBDA at : IF at.st = "run" THEN pass(at) ELSE at)
    IN  walk[Len(lines) + 1]

\* render_wrapped_instructions on the lines and branchtable of a context whose
\* lines carry the given flags
render_wrapped_instructions(lines, flags, branchtable) ==
    LET each[k \in 0..Len(branchtable)] ==
            IF k = 0 THEN [st |-> "ok", err |-> "", flags |-> flags]
            ELSE Bind(each[k - 1], LAMBDA context :
                    LET branch == branchtable[k]
                    IN  IF context.st # "ok" THEN context
                        ELSE IF lines[branch + 1].branchto = <<>> THEN context
                        ELSE Bind(loop_to_target(lines, context.flags, branch,
                                                 lines[branch + 1].branchto[1]),
                                  LAMBDA done :
                                      [st |-> done.st, err |-> done.err, flags |-> done.flags]))
        depth(fl) ==
            IF fl = <<>> THEN 0
            ELSE CHOOSE d \in {Len(fl[i]) : i \in 1..Len(fl)} :
                    \A i \in 1..Len(fl) : Len(fl[i]) <= d
    IN  Bind(each[Len(branchtable)], LAMBDA context :
            [st |-> context.st, err |-> context.err, flags |-> context.flags,
             branchdepth |-> IF context.st = "ok" THEN depth(context.flags) ELSE 0])

(***************************************************************************)
(* The disassembler on the machine: the console is built as main builds    *)
(* it, stepped into the state of interest, and handed to debug_simulation  *)
(* with a line budget.                                                     *)
(***************************************************************************)
MaxLines == 5

DebugInsns ==
    {<<\hFB>>,                \* XCE
     <<\h48>>,                \* PHA
     <<\h10, \h01>>,          \* BPL +1   (into the next instruction, or past the last)
     <<\hD0, \hFE>>,          \* BNE -2   (its own address)
     <<\hA9, \h34, \h92>>,    \* LDA #$9234
     <<\h6C, \h00, \h21>>,    \* JMP ($2100)
     <<\hC2, \h30>>,          \* REP #$30
     <<\h22, \h0A, \h80, \h00>>,  \* JSL $00800A
     <<\h60>>}                \* RTS

\* the programs of at most MaxProg instructions, and one that enters native
\* mode, narrows and widens the registers, loads a 16-bit immediate and returns
DebugPrograms ==
    UNION {[1..n -> DebugInsns] : n \in 0..MaxProg}
        \cup {<<<<\hFB>>, <<\hE2, \h30>>, <<\hC2, \h30>>, <<\hA9, \h34, \h92>>, <<\h60>>>>}

InitDebug ==
    /\ \E program \in DebugPrograms : snes = Console_new(ProgramCart(program))
    /\ overflow_checks \in BOOLEAN
    /\ halted = "no"
    /\ last = NoOp
    /\ prev = NoOp
    /\ steps = [step |-> 0, cmd |-> 0]

Simulate ==
    /\ halted = "no"
    /\ \E maxlines \in {1, MaxLines} :
          \E r \in {debug_simulation(snes, maxlines)} :
              last' = [kind |-> "debug_simulation", maxlines |-> maxlines, st |-> r.st,
                       result |-> r.kind, err |-> r.err, lines |-> r.lines,
                       branchtable |-> r.branchtable, startloc |-> r.startloc,
                       endloc |-> r.endloc, status |-> r.status, pre |-> snes,
                       rendered |->
                           IF r.kind = "Context"
                           THEN render_wrapped_instructions(
                                    r.lines, [i \in 1..Len(r.lines) |-> <<>>], r.branchtable)
                           ELSE <<>>]
    /\ prev' = last
    /\ UNCHANGED <<snes, overflow_checks, halted, steps>>

NextDebug == Step \/ Simulate

SpecDebug == InitDebug /\ [][NextDebug]_vars

Locations(lines) == {lines[j].location : j \in 1..Len(lines)}

\* C19: in every DisassemblerContext that debug_simulation returns, the line of
\* every index in branchtable has a branchto that is None or the location of
\* one of the lines.
C19_BranchTargetsAreLines ==
    (last.kind = "debug_simulation" /\ last.result = "Context") =>
        \A k \in 1..Len(last.branchtable) :
            LET line == last.lines[last.branchtable[k] + 1]
            IN  \/ line.branchto = <<>>
                \/ line.branchto[1] \in Locations(last.lines)

\* C20: a walk of debug_simulation that cannot continue never crashes and
\* returns a DisassemblyError whose instruction list is not empty and whose
\* status is the simulated console.
C20_FailedWalkKeepsLines ==
    (last.kind = "debug_simulation" /\ last.st # "ok") =>
        /\ last.st = "err"
        /\ last.result = "DisassemblyError"
        /\ last.lines # <<>>
        /\ last.status # <<>>

\* C21: debug_simulation(snes, maxlines) returns, and a context that it returns
\* holds at most maxlines lines.
C21_AtMostMaxlines ==
    (last.kind = "debug_simulation" /\ last.result = "Context") =>
        Len(last.lines) <= last.maxlines

\* C22: after an XCE executed in either mode the new E is the old C and the new
\* C is the old E, and when the new E is 1 then M = 1, X = 1 and
\* S = (old S & 0xFF) | 0x0100.
C22_XceSwapsAndForces ==
    StepOk(last, "XCE") =>
        /\ snes.cpu.P.e = last.pre.cpu.P.c
        /\ snes.cpu.P.c = last.pre.cpu.P.e
        /\ snes.cpu.P.e =>
              /\ snes.cpu.P.m
              /\ snes.cpu.P.x
              /\ snes.cpu.S = Lo(last.pre.cpu.S) + \h100

(***************************************************************************)
(* The processor on its own: a console set up the way the tests of cpu.rs  *)
(* set one up (native mode, registers and flags assigned directly, a stack *)
(* in work RAM), with a short program at the reset vector and an operand   *)
(* word in the direct page, stepped as main steps it.                      *)
(***************************************************************************)
Operands == {<<\h01, \h00>>, <<\hFF, \h7F>>, <<\h80, \h80>>}

ImmediateOps ==
    {\h69,   \* ADC #
     \hE9,   \* SBC #
     \h29,   \* AND #
     \h09,   \* ORA #
     \hA9,   \* LDA #
     \hC9,   \* CMP #
     \hE0,   \* CPX #
     \hC0,   \* CPY #
     \h89,   \* BIT #
     \hA2,   \* LDX #
     \hA0}   \* LDY #

CpuPrograms ==
    {<<op>> \o operand : op \in ImmediateOps, operand \in Operands} \cup
    {<<\h20, \h04, \h80, \hEA, \h60>>,        \* JSR $8004; NOP; RTS
     <<\h22, \h05, \h80, \h00, \hEA, \h6B>>,  \* JSL $008005; NOP; RTL
     <<\h40>>,                                \* RTI
     <<\hC2, \h30>>,                          \* REP #$30
     <<\hC2, \hCF>>,                          \* REP #$CF
     <<\hE2, \h30>>,                          \* SEP #$30
     <<\hE2, \hC3>>,                          \* SEP #$C3
     <<\h08, \hC2, \h10, \hA2, \h34, \h12, \h28>>,  \* PHP; REP #$10; LDX #$1234; PLP
     <<\hFB>>,                                \* XCE
     <<\h0A>>, <<\h4A>>, <<\h2A>>, <<\h6A>>,  \* ASL A, LSR A, ROL A, ROR A
     <<\h1A>>, <<\h3A>>,                      \* INC A, DEC A
     <<\h48, \h68>>,                          \* PHA; PLA
     <<\h8A>>, <<\h98>>,                      \* TXA, TYA
     <<\hAA>>, <<\hA8>>,                      \* TAX, TAY
     <<\hE8>>, <<\hC8>>, <<\hCA>>,            \* INX, INY, DEX
     <<\hDA, \hFA>>,                          \* PHX; PLX
     <<\h65, \h10>>,                          \* ADC $10
     <<\h24, \h10>>,                          \* BIT $10
     <<\h2C, \h10, \h00>>,                    \* BIT $0010
     <<\hC5, \h10>>,                          \* CMP $10
     <<\h06, \h10>>, <<\h46, \h10>>,          \* ASL $10, LSR $10
     <<\h26, \h10>>, <<\h66, \h10>>,          \* ROL $10, ROR $10
     <<\h90, \h10>>, <<\hB0, \h10>>,          \* BCC +16, BCS +16
     <<\hF0, \h10>>, <<\hD0, \hFC>>,          \* BEQ +16, BNE -4
     <<\h30, \h7F>>, <<\h10, \h80>>,          \* BMI +127, BPL -128
     <<\h50, \h10>>, <<\h70, \h10>>}          \* BVC +16, BVS +16

AValues == {\h0000, \h12FF, \h807F, \hFF80}
IndexValues == {\h1234, \h00FF}
SValues == {\h01FF, \h0001}

\* an index register under the width flag x: 8 bits when it is set
IndexReg(v, x) == IF x THEN Lo(v) ELSE v

InitCpu ==
    /\ \E program \in CpuPrograms, operand \in Operands, a \in AValues,
          xy \in IndexValues, sp \in SValues, m \in BOOLEAN, x \in BOOLEAN, c \in BOOLEAN,
          nvz \in BOOLEAN :
          snes = [Console_new(ProgramCart(<<program>>)) EXCEPT
                     !.cpu.A = a,
                     !.cpu.X = IndexReg(xy, x),
                     !.cpu.Y = IndexReg(\h10000 - xy, x),
                     !.cpu.S = sp,
                     !.cpu.P = [@ EXCEPT !.e = FALSE, !.m = m, !.x = x, !.c = c,
                                         !.n = nvz, !.v = nvz, !.z = nvz],
                     !.ram = RamSet(RamSet(@, \h10, operand[1]), \h11, operand[2])]
    /\ overflow_checks \in BOOLEAN
    /\ halted = "no"
    /\ last = NoOp
    /\ prev = NoOp
    /\ steps = [step |-> 0, cmd |-> 0]

NextCpu == Step

SpecCpu == InitCpu /\ [][NextCpu]_vars

\* the operand word of the instruction at PC
OperandWord(s) == read_word(s, (get_pc(s.cpu) + 1) % U24).val

\* the two bytes a push of a word writes lie in work RAM
WordStackInWram(cpu) == ~cpu.P.e /\ cpu.S >= 1 /\ cpu.S < \h2000

\* C23: in native mode with the stack in work RAM, JSR abs pushes the address
\* of the JSR plus 2 as a word and sets PC to the target in bank K, and an RTS
\* executed next resumes at the address of the JSR plus 3 with K unchanged and
\* S as it was before the JSR.
C23_JsrRts ==
    /\ (IsStep(last, "JSR") /\ WordStackInWram(last.pre.cpu)) =>
          /\ last.st = "ok"
          /\ snes.cpu.PC = OperandWord(last.pre)
          /\ snes.cpu.K = last.pre.cpu.K
          /\ snes.cpu.S = (last.pre.cpu.S - 2) % U16
          /\ Word(RamGet(snes.ram, last.pre.cpu.S), RamGet(snes.ram, last.pre.cpu.S - 1))
                = (last.pre.cpu.PC + 2) % U16
    /\ (StepOk(prev, "JSR") /\ IsStep(last, "RTS") /\ WordStackInWram(prev.pre.cpu)) =>
          /\ last.st = "ok"
          /\ snes.cpu.PC = (prev.pre.cpu.PC + 3) % U16
          /\ snes.cpu.K = prev.pre.cpu.K
          /\ snes.cpu.S = prev.pre.cpu.S

C23_Witness ==
    /\ StepOk(prev, "JSR")
    /\ StepOk(last, "RTS")
    /\ prev.pre.cpu.PC = \h8000
    /\ last.pre.cpu.PC = \h8004
    /\ snes.cpu.PC = \h8003

\* C24: a successful step returns the tag Subroutine for every JSR and JSL and
\* the tag Return for every RTS, RTL and RTI, so that pushing on Subroutine and
\* popping on Return counts the calls not yet returned from.
C24_CallAndReturnTags ==
    (last.kind = "step" /\ last.st = "ok") =>
        /\ last.opcode \in {"JSR", "JSL"} => last.tag = "Subroutine"
        /\ last.opcode \in {"RTS", "RTL", "RTI"} => last.tag = "Return"

\* the operand byte of the instruction at PC
OperandByte(s) == read_byte(s, (get_pc(s.cpu) + 1) % U24).val

\* every register but A, X, Y, P and PC
SameSystemRegisters(c, d) ==
    /\ c.S = d.S
    /\ c.D = d.D
    /\ c.DBR = d.DBR
    /\ c.K = d.K

\* C25: in native mode REP #imm clears exactly the flags of P whose bits are 1
\* in imm and SEP #imm sets exactly those; the other flags, A, S, D, DBR and K
\* are unchanged and PC advances by 2.
C25_RepSep ==
    (last.kind = "step" /\ last.opcode \in {"REP", "SEP"} /\ ~last.pre.cpu.P.e) =>
        LET imm == OperandByte(last.pre)
            old == p_byte(last.pre.cpu)
        IN  /\ last.st = "ok"
            /\ p_byte(snes.cpu) = IF last.opcode = "SEP" THEN BitOr(old, imm)
                                  ELSE BitAnd(old, \hFF - imm)
            /\ snes.cpu.P.e = last.pre.cpu.P.e
            /\ snes.cpu.P.b = last.pre.cpu.P.b
            /\ snes.cpu.A = last.pre.cpu.A
            /\ SameSystemRegisters(snes.cpu, last.pre.cpu)
            /\ snes.cpu.PC = (last.pre.cpu.PC + 2) % U16
            /\ snes.ram = last.pre.ram

C25_Witness ==
    /\ StepOk(last, "SEP")
    /\ OperandByte(last.pre) = \hC3
    /\ p_byte(last.pre.cpu) = \h20
    /\ p_byte(snes.cpu) = \hE3

\* C26: in every state reached by stepping from a state where it holds,
\* whenever the index-width flag X is 1 the high bytes of the registers X and Y
\* are 0.
C26_NarrowIndexHighBytes ==
    snes.cpu.P.x => (Hi(snes.cpu.X) = 0 /\ Hi(snes.cpu.Y) = 0)

\* the operand of the instruction at PC, 8 bits wide when narrow and 16 otherwise
OperandOf(s, narrow) ==
    LET instr == decode_instruction(s, fetch(s).val, get_pc(s.cpu)).val
    IN  IF narrow THEN read_byte(s, instr.data_addr).val
        ELSE read_word(s, instr.data_addr).val

\* 2^w for the width w that a width flag selects
Modulus(narrow) == IF narrow THEN U8 ELSE U16
SignBit(v, narrow) == v % Modulus(narrow) >= Modulus(narrow) \div 2

\* C27: in native mode with D = 0, ADC at the width w of M sets the low w bits
\* of A to (A + operand + C) mod 2^w; C is the carry out of bit w-1, V is 1
\* exactly when A and the operand had the same sign and the result the other,
\* N is bit w-1 of the result and Z is 1 exactly when the result is 0.
C27_AdcBinary ==
    (IsStep(last, "ADC") /\ ~last.pre.cpu.P.e /\ ~last.pre.cpu.P.d) =>
        LET narrow == last.pre.cpu.P.m
            a == last.pre.cpu.A % Modulus(narrow)
            operand == OperandOf(last.pre, narrow)
            sum == a + operand + BoolBit(last.pre.cpu.P.c)
            result == sum % Modulus(narrow)
        IN  /\ last.st = "ok"
            /\ snes.cpu.A % Modulus(narrow) = result
            /\ snes.cpu.P.c = (sum >= Modulus(narrow))
            /\ snes.cpu.P.v = (/\ SignBit(a, narrow) = SignBit(operand, narrow)
                               /\ SignBit(result, narrow) # SignBit(a, narrow))
            /\ snes.cpu.P.n = SignBit(result, narrow)
            /\ snes.cpu.P.z = (result = 0)

\* the addressing mode of the instruction at PC
ModeOf(s) == decode_instruction(s, fetch(s).val, get_pc(s.cpu)).val.mode

\* the operations on the accumulator named by the claim
AccumulatorClass(op, mode) ==
    \/ op \in {"ADC", "SBC", "AND", "ORA", "LDA", "PLA", "TXA", "TYA"}
    \/ op \in {"ASL", "LSR", "ROL", "ROR", "INC", "DEC"} /\ mode = "Accumulator"

\* C28: every accumulator-class operation executed in native mode with M = 1
\* leaves the high byte of A as it was.
C28_NarrowKeepsHighByte ==
    (/\ last.kind = "step"
     /\ last.st = "ok"
     /\ ~last.pre.cpu.P.e
     /\ last.pre.cpu.P.m
     /\ AccumulatorClass(last.opcode, ModeOf(last.pre))) =>
        Hi(snes.cpu.A) = Hi(last.pre.cpu.A)

\* C29: in native mode CMP, CPX and CPY at the width w of their flag compare
\* the low w bits of the register with the w-bit operand: Z is 1 exactly when
\* they are equal, C exactly when the register is not below the operand, N is
\* bit w-1 of the difference mod 2^w, and A, X and Y are unchanged.
C29_Compare ==
    (last.kind = "step" /\ last.opcode \in {"CMP", "CPX", "CPY"} /\ ~last.pre.cpu.P.e) =>
        LET cpu == last.pre.cpu
            narrow == IF last.opcode = "CMP" THEN cpu.P.m ELSE cpu.P.x
            reg == CASE last.opcode = "CMP" -> cpu.A
                     [] last.opcode = "CPX" -> cpu.X
                     [] last.opcode = "CPY" -> cpu.Y
            r == reg % Modulus(narrow)
            operand == OperandOf(last.pre, narrow)
        IN  /\ last.st = "ok"
            /\ snes.cpu.P.z = (r = operand)
            /\ snes.cpu.P.c = (r >= operand)
            /\ snes.cpu.P.n = SignBit(r - operand, narrow)
            /\ snes.cpu.A = cpu.A
            /\ snes.cpu.X = cpu.X
            /\ snes.cpu.Y = cpu.Y

\* C30: in native mode BIT sets Z to 1 exactly when A and the operand have no
\* common bit at the current width, in every addressing mode; in the modes
\* other than immediate it also sets N and V to the top two bits of the
\* operand, and in the immediate mode it leaves N and V unchanged.
C30_Bit ==
    (IsStep(last, "BIT") /\ ~last.pre.cpu.P.e) =>
        LET cpu == last.pre.cpu
            narrow == cpu.P.m
            operand == OperandOf(last.pre, narrow)
            top == IF narrow THEN 7 ELSE 15
        IN  /\ last.st = "ok"
            /\ snes.cpu.P.z = (BitAnd(cpu.A % Modulus(narrow), operand) = 0)
            /\ IF ModeOf(last.pre) = "Immediate"
               THEN snes.cpu.P.n = cpu.P.n /\ snes.cpu.P.v = cpu.P.v
               ELSE snes.cpu.P.n = Bit(operand, top) /\ snes.cpu.P.v = Bit(operand, top - 1)

\* the value a read-modify-write instruction at PC of pre works on, and the
\* value it has left there in post: the accumulator or the addressed memory
ShiftOperand(pre, narrow) ==
    IF ModeOf(pre) = "Accumulator" THEN pre.cpu.A % Modulus(narrow)
    ELSE OperandOf(pre, narrow)
ShiftResult(pre, post, narrow) ==
    LET instr == decode_instruction(pre, fetch(pre).val, get_pc(pre.cpu)).val
    IN  IF instr.mode = "Accumulator" THEN post.cpu.A % Modulus(narrow)
        ELSE IF narrow THEN read_byte(post, instr.data_addr).val
        ELSE read_word(post, instr.data_addr).val

\* C31: in native mode ASL, LSR, ROL and ROR at the width w of M, on the
\* accumulator or on memory, leave the operand moved by one bit (ROL and ROR
\* bringing the old C into the vacated bit); C is the bit moved out (bit w-1
\* for ASL and ROL, bit 0 for LSR and ROR), N is bit w-1 of the result and Z
\* is 1 exactly when the w-bit result is 0.
C31_ShiftRotate ==
    (last.kind = "step" /\ last.opcode \in {"ASL", "LSR", "ROL", "ROR"}
        /\ ~last.pre.cpu.P.e) =>
        LET narrow == last.pre.cpu.P.m
            operand == ShiftOperand(last.pre, narrow)
            cin == BoolBit(last.pre.cpu.P.c)
            result ==
                CASE last.opcode = "ASL" -> (operand * 2) % Modulus(narrow)
                  [] last.opcode = "ROL" -> (operand * 2 + cin) % Modulus(narrow)
                  [] last.opcode = "LSR" -> operand \div 2
                  [] last.opcode = "ROR" -> (operand \div 2) + cin * (Modulus(narrow) \div 2)
        IN  /\ last.st = "ok"
            /\ ShiftResult(last.pre, snes, narrow) = result
            /\ snes.cpu.P.c = IF last.opcode \in {"ASL", "ROL"} THEN SignBit(operand, narrow)
                              ELSE operand % 2 = 1
            /\ snes.cpu.P.n = SignBit(result, narrow)
            /\ snes.cpu.P.z = (result = 0)

\* the branch opcodes that test one flag, and the test each makes
ConditionalBranches == {"BCC", "BCS", "BEQ", "BNE", "BMI", "BPL", "BVC", "BVS"}
BranchCondition(op, P) ==
    CASE op = "BCC" -> ~P.c
      [] op = "BCS" -> P.c
      [] op = "BEQ" -> P.z
      [] op = "BNE" -> ~P.z
      [] op = "BMI" -> P.n
      [] op = "BPL" -> ~P.n
      [] op = "BVC" -> ~P.v
      [] op = "BVS" -> P.v

\* an operand byte read as a signed displacement
SignExtend(l) == IF l >= \h80 THEN l - \h100 ELSE l

\* C32: in native mode every conditional branch with operand byte l returns
\* Normal with PC advanced by 2 when its condition is false, and BranchTaken
\* with PC = (PC + 2 + sign-extended l) mod 2^16 when it is true; K is
\* unchanged in both cases.
C32_ConditionalBranch ==
    (last.kind = "step" /\ last.opcode \in ConditionalBranches /\ ~last.pre.cpu.P.e) =>
        LET cpu == last.pre.cpu
            l == OperandByte(last.pre)
        IN  /\ last.st = "ok"
            /\ snes.cpu.K = cpu.K
            /\ IF BranchCondition(last.opcode, cpu.P)
               THEN /\ last.tag = "BranchTaken"
                    /\ snes.cpu.PC = (cpu.PC + 2 + SignExtend(l)) % U16
               ELSE /\ last.tag = "Normal"
                    /\ snes.cpu.PC = (cpu.PC + 2) % U16

\* the address of the k-th byte a sequence of pushes writes, counted from 0
StackSlot(cpu, k) ==
    IF cpu.P.e THEN \h100 + ((Lo(cpu.S) - k) % U8) ELSE (cpu.S - k) % U16

\* C33: BRK pushes K, then the 16-bit return PC (the address of the BRK plus
\* 2), then P (with bit 4 set when E = 1); after the step D = 0, I = 1, K = 0,
\* PC is the BRK vector that E selects and the result tag is Interrupt.
C33_Brk ==
    (IsStep(last, "BRK") /\ (last.pre.cpu.P.e \/ (last.pre.cpu.S >= 3 /\ last.pre.cpu.S < \h2000))) =>
        LET cpu == last.pre.cpu
            pushed == IF cpu.P.e THEN BitOr(p_byte(cpu), \h10) ELSE p_byte(cpu)
        IN  /\ last.st = "ok"
            /\ last.tag = "Interrupt"
            /\ RamGet(snes.ram, StackSlot(cpu, 0)) = cpu.K
            /\ Word(RamGet(snes.ram, StackSlot(cpu, 1)), RamGet(snes.ram, StackSlot(cpu, 2)))
                  = (cpu.PC + 2) % U16
            /\ RamGet(snes.ram, StackSlot(cpu, 3)) = pushed
            /\ ~snes.cpu.P.d
            /\ snes.cpu.P.i
            /\ snes.cpu.K = 0
            /\ snes.cpu.PC = IF cpu.P.e THEN snes.cartridge.vectors.brk_emu
                              ELSE snes.cartridge.vectors.brk

(***************************************************************************)
(* Address resolution on its own: every opcode byte with a fixed choice of *)
(* operand bytes at the reset vector, a console set up as the tests of     *)
(* cpu.rs set one up with the registers the addressing modes read, and     *)
(* one decode_instruction of the instruction at PC.                        *)
(***************************************************************************)
AddrOperands == {<<\h10, \h00, \h7E>>, <<\hF0, \h20, \h00>>}
DValues == {\h0000, \h1200, \h12F0, \hFFF0}
AddrIndexValues == {\h0000, \h0020, \h1234}
KValues == {\h00, \h80}

InitAddr ==
    /\ \E byte \in Bytes, operand \in AddrOperands, d \in DValues,
          xy \in AddrIndexValues, k \in KValues, e \in BOOLEAN :
          snes = [Console_new(ProgramCart(<<<<byte>> \o operand>>)) EXCEPT
                     !.cpu.D = d,
                     !.cpu.K = k,
                     !.cpu.X = IndexReg(xy, e),
                     !.cpu.Y = IndexReg((xy + \h0101) % U16, e),
                     !.cpu.S = \h01FF,
                     !.cpu.P = [@ EXCEPT !.e = e, !.m = e, !.x = e],
                     !.ram = RamSet(RamSet(RamSet(RamSet(RamSet(@,
                                \h10, \h34), \h11, \h92), \h12, \h7E), \h30, \h78), \h31, \h56)]
    /\ overflow_checks \in BOOLEAN
    /\ halted = "no"
    /\ last = NoOp
    /\ prev = NoOp
    /\ steps = [step |-> 0, cmd |-> 0]

\* decode_instruction of the instruction at PC, as step calls it
Resolve ==
    /\ last.kind = "init"
    /\ LET byte == fetch(snes).val
           r == decode_instruction(snes, byte, get_pc(snes.cpu))
       IN  last' = [kind |-> "decode_instruction", byte |-> byte,
                    opcode |-> opcode_of(byte), st |-> r.st, err |-> r.err,
                    tag |-> "", pre |-> snes,
                    instruction |-> IF r.st = "ok" THEN r.val ELSE <<>>]
    /\ UNCHANGED <<snes, overflow_checks, halted, prev, steps>>

NextAddress == Resolve

SpecAddr == InitAddr /\ [][NextAddress]_vars

\* a decoded instruction in one of the given addressing modes
ResolvedIn(modes) ==
    /\ last.kind = "decode_instruction"
    /\ last.st = "ok"
    /\ last.instruction.mode \in modes

\* the index register a direct-page mode adds
DirectIndex(cpu, mode) ==
    CASE mode = "Direct" -> 0
      [] mode = "DirectX" -> cpu.X
      [] mode = "DirectY" -> cpu.Y

\* C34: with E = 1 and the low byte of D equal to 0, the modes Direct,
\* DirectX and DirectY resolve to the bank-0 address
\* (D & 0xFF00) | ((operand + index) mod 256); in every other case they
\* resolve to (D + operand + index) mod 2^16 in bank 0.
C34_DirectPage ==
    ResolvedIn({"Direct", "DirectX", "DirectY"}) =>
        LET cpu == last.pre.cpu
            l == OperandByte(last.pre)
            index == DirectIndex(cpu, last.instruction.mode)
        IN  last.instruction.data_addr =
                IF cpu.P.e /\ Lo(cpu.D) = 0
                THEN Hi(cpu.D) * \h100 + ((l + index) % U8)
                ELSE (cpu.D + l + index) % U16

\* C35: the block-move opcode bytes 0x44 and 0x54 decode to the mode
\* SourceDestination with data_addr = h<<16 | Y and dest_addr = l<<16 | X,
\* and no other opcode byte decodes to SourceDestination: dest_addr is
\* present exactly when the mnemonic is MVN or MVP.
C35_BlockMove ==
    last.kind = "decode_instruction" =>
        LET cpu == last.pre.cpu
            l == OperandByte(last.pre)
            h == read_byte(last.pre, (get_pc(cpu) + 2) % U24).val
        IN  /\ last.byte \in {\h44, \h54} =>
                  /\ last.st = "ok"
                  /\ last.instruction.mode = "SourceDestination"
                  /\ last.instruction.data_addr = h * U16 + cpu.Y
                  /\ last.instruction.dest_addr = <<l * U16 + cpu.X>>
            /\ (last.st = "ok" /\ last.byte \notin {\h44, \h54}) =>
                  /\ last.instruction.mode # "SourceDestination"
                  /\ last.instruction.dest_addr = <<>>
            /\ last.st = "ok" =>
                  (last.instruction.dest_addr # <<>> <=> last.opcode \in {"MVN", "MVP"})

\* the 16-bit and 24-bit pointers stored at an address
PointerWord(s, addr) == read_word(s, addr).val
PointerLong(s, addr) ==
    read_byte(s, (addr + 2) % U24).val * U16 + read_word(s, addr).val

\* C36: the decoded target of an indirect jump is the pointer read from
\* memory: for JMP (abs,X) (0x7C) it is K:w with w the word stored at
\* K:(abs + X), and for JML [abs] (0xDC) it is the 24-bit pointer stored at
\* 00:abs.
C36_IndirectJump ==
    (last.kind = "decode_instruction" /\ last.byte \in {\h7C, \hDC}) =>
        LET cpu == last.pre.cpu
            abs == OperandWord(last.pre)
        IN  /\ last.st = "ok"
            /\ last.instruction.data_addr =
                  IF last.byte = \h7C
                  THEN cpu.K * U16 + PointerWord(last.pre, cpu.K * U16 + ((abs + cpu.X) % U16))
                  ELSE PointerLong(last.pre, abs)

\* the instructions the claim names as the end of a window
EndsWindow(opcode) == opcode \in {"BRK", "JSR", "JSL", "RTS", "RTL", "RTI", "BRA"}

\* C37: in every context that debug_simulation returns with fewer lines than
\* maxlines, the last line is a BRK, a subroutine call (JSR or JSL), a return
\* (RTS, RTL, RTI) or a BRA, and no earlier line is one of these.
C37_WindowEndsAtControlFlow ==
    (/\ last.kind = "debug_simulation"
     /\ last.result = "Context"
     /\ Len(last.lines) < last.maxlines) =>
        /\ last.lines # <<>>
        /\ EndsWindow(last.lines[Len(last.lines)].instruction.opcode)
        /\ \A j \in 1..(Len(last.lines) - 1) :
              ~EndsWindow(last.lines[j].instruction.opcode)

\* an instruction after which the next one executed need not be the next one
\* in memory
LeavesLine(opcode) ==
    \/ is_branch(opcode) \/ is_jump(opcode) \/ is_return(opcode)
    \/ is_subroutine(opcode) \/ is_interrupt(opcode)

\* the console after k steps of the machine from s, while the steps succeed
Stepped(s, k) ==
    LET machine[n \in 0..k] ==
            IF n = 0 THEN Done(s)
            ELSE Bind(machine[n - 1], LAMBDA before :
                    IF before.st = "ok" THEN step(before.snes) ELSE before)
    IN  machine[k]

\* C38: in a window of straight-line native-mode code, the status (M, X, E)
\* and the location recorded on each line are the flags and the PC that the
\* machine has when single-stepping from the same start state reaches that
\* instruction; an LDA #imm line met with M = 0 (after REP #$30) is 3 bytes
\* long, its data is the 16-bit immediate, and the next line starts 3 bytes
\* later.
C38_WalkFollowsMachine ==
    (/\ last.kind = "debug_simulation"
     /\ last.result = "Context"
     /\ ~last.pre.cpu.P.e) =>
        \A k \in 1..Len(last.lines) :
            (\A j \in 1..(k - 1) : ~LeavesLine(last.lines[j].instruction.opcode)) =>
                LET line == last.lines[k]
                    instr == line.instruction
                    machine == Stepped(last.pre, k - 1)
                IN  /\ machine.st = "ok"
                    /\ line.location = get_pc(machine.snes.cpu)
                    /\ line.status = [x |-> machine.snes.cpu.P.x,
                                      m |-> machine.snes.cpu.P.m,
                                      e |-> machine.snes.cpu.P.e]
                    /\ (instr.opcode = "LDA" /\ instr.mode = "Immediate" /\ ~line.status.m) =>
                          /\ length(instr.opcode, instr.mode, line.status.m, line.status.x) = Ok(3)
                          /\ line.data = OperandWord(machine.snes)
                          /\ k < Len(last.lines) =>
                                last.lines[k + 1].location = line.location + 3

\* XCE and SEP #$30 have been stepped, and the window holds REP #$30, then
\* LDA #$9234, then RTS
C38_Witness ==
    /\ last.kind = "debug_simulation"
    /\ last.result = "Context"
    /\ ~last.pre.cpu.P.e
    /\ last.pre.cpu.P.m
    /\ last.pre.cpu.PC = \h8003
    /\ Len(last.lines) = 3
    /\ last.lines[1].instruction.opcode = "REP"
    /\ last.lines[2].instruction.opcode = "LDA"
    /\ last.lines[2].location = \h8005
    /\ last.lines[2].status = [x |-> FALSE, m |-> FALSE, e |-> FALSE]
    /\ last.lines[2].data = \h9234
    /\ last.lines[3].location = \h8008

\* the largest number of flags on a line
MaxFlags(flags) ==
    IF flags = <<>> THEN 0
    ELSE CHOOSE d \in 0..Len(flags) * 3 :
            /\ \A i \in 1..Len(flags) : Len(flags[i]) <= d
            /\ \E i \in 1..Len(flags) : Len(flags[i]) = d

\* C39: for every context whose branchtable indexes existing lines, also one
\* where the branchto of a branch is not the location of any line,
\* render_wrapped_instructions ends without a crash, returns as many lines
\* as it was given and sets branchdepth to the largest number of flags on a
\* line.
C39_RenderTerminates ==
    (last.kind = "debug_simulation" /\ last.result = "Context") =>
        /\ last.rendered.st = "ok"
        /\ Len(last.rendered.flags) = Len(last.lines)
        /\ last.rendered.branchdepth = MaxFlags(last.rendered.flags)

\* the number of operand bytes that an addressing mode other than Immediate
\* consumes
OperandBytes(mode) ==
    CASE mode \in {"Implied", "Accumulator"} -> 0
      [] mode \in {"Direct", "DirectX", "DirectY", "DirectWord", "DirectSWord",
                   "IndexedDirectWord", "DirectIndexedWord", "DirectIndexedSWord",
                   "Stack", "StackIndexed", "RelativeByte"} -> 1
      [] mode \in {"Absolute", "AbsoluteWord", "AbsoluteSWord", "AbsoluteX", "AbsoluteY",
                   "AbsoluteIndirectWord", "AbsoluteIndirectSWord",
                   "AbsoluteIndexedIndirect", "RelativeWord", "SourceDestination"} -> 2
      [] mode \in {"Long", "LongX"} -> 3

\* C40: for every opcode byte and every (m, x), length(m, x) of the decoded
\* instruction returns a value, and outside the Immediate mode that value is
\* 1 plus the number of operand bytes of the addressing mode: 0 for Implied
\* and Accumulator, 1 for the direct-page, stack-relative and 8-bit relative
\* modes, 2 for the absolute modes, the 16-bit relative mode and the block
\* moves, 3 for Long and Long,X.
C40_LengthOfMode ==
    (last.kind = "decode" /\ last.st = "ok") =>
        /\ last.length.st = "ok"
        /\ last.mode # "Immediate" => last.length.val = 1 + OperandBytes(last.mode)

====
